---- MODULE Spec2Model ----
(***************************************************************************)
(* A model of ALRA: its grounding / confidence scoring                     *)
(* (src/src/grounding.py), its query reasoning expansion                   *)
(* (src/src/reasoning.py), the answer engine (src/src/engine.py), the      *)
(* handlers of src/app.py and src/benchmark.py, the interaction log        *)
(* (src/src/evaluation.py) and the semantic tagging of chunks              *)
(* (src/src/semantic_extractor.py).                                        *)
(*                                                                         *)
(* Scores are Python floats; they are modelled as exact rationals          *)
(* [num, den] in lowest terms.  Texts are sequences of one-character       *)
(* strings, so that lower(), slicing, substring search and the \w+         *)
(* tokenizer are computed, not assumed.                                    *)
(***************************************************************************)
EXTENDS Integers, Sequences, FiniteSets, TLC

VARIABLES
    \* ---- inputs and results of the scorers of grounding.py
    query,            \* the user's question (text)
    answer,           \* the generated answer (text)
    docs,             \* the retrieved passages, in received order
    distances,        \* their distances, in received order
    called,           \* which scorer returned last ("none" before any call)
    ret,              \* value returned by the last scalar scorer
    grounding,        \* GroundingResult returned by compute_grounding_score
    prev_distances,   \* distances of the previous compute_retrieval_similarity call
    prev_ret,         \* value that previous call returned
    \* ---- the reasoning expander of reasoning.py
    user_query,       \* the query handed to expand_query
    api_key,          \* TRUE iff GROQ_API_KEY is set in the environment
    llm_outcome,      \* what chain.invoke does: the exception it raises, or the
                      \* raw response it returns and the JSON document in it
    rpc,              \* position in search_with_context: "start", "expanded",
                      \* "selected", "raised" ("idle": not running)
    raised,           \* the exception raised inside expand_query's try block ("" if none)
    propagated,       \* the exception that left expand_query ("" if it returned)
    reasoning_result, \* dict returned by expand_query
    search_query,     \* value returned by get_search_query
    \* ---- the handlers of app.py and benchmark.py, and get_answer of engine.py
    index_exists,     \* TRUE iff the directory faiss_index exists
    handler,          \* the handler that runs: "chat", "synthesis",
                      \* "rapid_benchmark", "benchmark" ("none" between runs)
    hpc,              \* position in the handler and in get_answer
    stages,           \* the calls made by the current get_answer, in order
    raw_results,      \* results_with_score: the (passage, distance) pairs found
    ctx_docs,         \* docs, as collected by the loop of search_with_context
    ctx_distances,    \* distances, as collected by that loop
    processed_context,\* the blocks of the prompt context
    pre_gen_confidence, \* the pre-generation confidence
    error,            \* the exception that left get_answer ("" if none)
    message,          \* what the handler showed last ("" if nothing)
    log_before,       \* contents of the log file when the handler started
    log_calls,        \* log_interaction calls made by the current handler run
    searches,         \* vector searches made by the current handler run
    asked,            \* handler runs started so far
    test_case,        \* index of the benchmark question being run (0: none)
    results,          \* benchmark.py: the results collected so far
    uploaded_files,   \* app.py: the files of the last "Process PDFs" click
    index_before,     \* TRUE iff faiss_index existed at that click
    processed,        \* how that click ended ("none" before the first click)
    \* ---- the interaction log of evaluation.py
    log_file,         \* eval_logs.json: whether it exists, and its text
    clock,            \* time.time()
    wpc,              \* position of the writer in log_interaction ("idle": no call)
    w_entry,          \* the entry of the current or last log_interaction call
    w_before,         \* the log file when that call started
    w_data,           \* data of _append_to_log
    w_pending,        \* text json.dump produced that has not reached the file yet
    logged,           \* the entries of the calls that returned, in call order
    w2pc,             \* position of a second session in its log_interaction call
    w2_entry,         \* the entry of that call
    w2_data,          \* its data in _append_to_log
    w2_pending,       \* its text that has not reached the file yet
    gpc,              \* position of the reader in get_logs ("idle": no call)
    g_size,           \* size of the file when the reader opened it
    g_buf,            \* text the reader has read so far
    g_ret,            \* value the last get_logs call returned
    g_start,          \* the log file when the get_logs call started
    g_logged,         \* the entries of the calls that had returned by then
    g_overlap,        \* writes that ran during the current or last get_logs call
    epc,              \* position in extract_semantic_sections ("idle": no call)
    chunks,           \* the page_content of the chunks it is given
    chain,            \* whether the classification chain was built
    chunk_index,      \* i of the loop: the chunks enriched so far
    enriched_docs,    \* enriched_docs: page_content and metadata of each
    invoked,          \* the chain.invoke calls made: i and text_chunk
    responses         \* what each of these calls did

gvars == <<query, answer, docs, distances, called, ret, grounding,
           prev_distances, prev_ret>>
rvars == <<user_query, api_key, llm_outcome, rpc, raised, propagated,
           reasoning_result, search_query>>
avars == <<index_exists, handler, hpc, stages, raw_results, ctx_docs, ctx_distances,
           processed_context, pre_gen_confidence, error, message, log_before,
           log_calls, searches, asked, test_case, results,
           uploaded_files, index_before, processed>>
lvars == <<log_file, clock, wpc, w_entry, w_before, w_data, w_pending, logged,
           w2pc, w2_entry, w2_data, w2_pending,
           gpc, g_size, g_buf, g_ret, g_start, g_logged, g_overlap>>
ivars == <<epc, chunks, chain, chunk_index, enriched_docs, invoked, responses>>
vars  == <<query, answer, docs, distances, called, ret, grounding,
           prev_distances, prev_ret,
           user_query, api_key, llm_outcome, rpc, raised, propagated,
           reasoning_result, search_query,
           index_exists, handler, hpc, stages, raw_results, ctx_docs, ctx_distances,
           processed_context, pre_gen_confidence, error, message, log_before,
           log_calls, searches, asked, test_case, results,
           uploaded_files, index_before, processed,
           log_file, clock, wpc, w_entry, w_before, w_data, w_pending, logged,
           w2pc, w2_entry, w2_data, w2_pending,
           gpc, g_size, g_buf, g_ret, g_start, g_logged, g_overlap,
           epc, chunks, chain, chunk_index, enriched_docs, invoked, responses>>

----------------------------------------------------------------------------
(* Bounds of the model *)

MaxDistances == 4     \* longest distance sequence
MaxDocs == 3          \* longest passage list drawn freely (GradedDocs has a longer one)
MaxPad == 44          \* longest filler before the warning marker
MaxRaw == 4           \* longest raw model response, in lexical atoms

----------------------------------------------------------------------------
(* Float arithmetic, as exact rationals *)

Abs(x) == IF x < 0 THEN -x ELSE x

RECURSIVE GCD(_, _)
GCD(a, b) == IF b = 0 THEN a ELSE GCD(b, a % b)

Rat(n, d) ==
    LET s == IF d < 0 THEN -1 ELSE 1
        g == GCD(Abs(n), Abs(d))
    IN  [num |-> (s * n) \div g, den |-> (s * d) \div g]

LCM(a, b) == (a \div GCD(a, b)) * b

RAdd(x, y) ==
    LET l == LCM(x.den, y.den)
    IN  Rat(x.num * (l \div x.den) + y.num * (l \div y.den), l)

RMul(x, y) ==
    LET g1 == GCD(Abs(x.num), y.den)
        g2 == GCD(Abs(y.num), x.den)
    IN  Rat((x.num \div g1) * (y.num \div g2), (x.den \div g2) * (y.den \div g1))

RDiv(x, y) == RMul(x, Rat(y.den, y.num))

RLt(x, y) ==
    LET l == LCM(x.den, y.den)
    IN  x.num * (l \div x.den) < y.num * (l \div y.den)

RLe(x, y) == x = y \/ RLt(x, y)

RMin(x, y) == IF RLt(y, x) THEN y ELSE x

Zero == Rat(0, 1)
One == Rat(1, 1)
Hundred == Rat(100, 1)

RECURSIVE RSum(_)
RSum(s) == IF s = <<>> THEN Zero ELSE RAdd(Head(s), RSum(Tail(s)))

----------------------------------------------------------------------------
(* Texts: sequences of one-character strings *)

LowerLetters == <<"a", "b", "c", "d", "e", "f", "g", "h", "i", "j", "k", "l", "m",
                  "n", "o", "p", "q", "r", "s", "t", "u", "v", "w", "x", "y", "z">>
UpperLetters == <<"A", "B", "C", "D", "E", "F", "G", "H", "I", "J", "K", "L", "M",
                  "N", "O", "P", "Q", "R", "S", "T", "U", "V", "W", "X", "Y", "Z">>

\* U+0130, LATIN CAPITAL LETTER I WITH DOT ABOVE, and U+0307, COMBINING DOT ABOVE
DottedCapitalI == "U+0130"
CombiningDot == "U+0307"

\* str.lower() on one character.  U+0130 is the one character whose lower
\* case is two characters long ("i" followed by U+0307).
LowerChar(c) ==
    IF \E k \in 1..26 : UpperLetters[k] = c
    THEN <<LowerLetters[CHOOSE k \in 1..26 : UpperLetters[k] = c]>>
    ELSE IF c = DottedCapitalI THEN <<"i", CombiningDot>>
    ELSE <<c>>

RECURSIVE Lower(_)
Lower(s) == IF s = <<>> THEN <<>> ELSE LowerChar(Head(s)) \o Lower(Tail(s))

\* s[:n]
Slice(s, n) == SubSeq(s, 1, IF Len(s) < n THEN Len(s) ELSE n)

\* needle in hay
Contains(hay, needle) ==
    \E i \in 0..(Len(hay) - Len(needle)) : SubSeq(hay, i + 1, i + Len(needle)) = needle

\* a character matched by the regular expression \w
IsWordChar(c) ==
    \/ \E k \in 1..26 : LowerLetters[k] = c \/ UpperLetters[k] = c
    \/ c \in {"0", "1", "2", "3", "4", "5", "6", "7", "8", "9", "_"}
    \/ c = DottedCapitalI

\* set(re.findall(r'\w+', s)): the maximal runs of word characters of s
Tokens(s) ==
    LET n == Len(s)
        starts == {i \in 1..n : IsWordChar(s[i]) /\ (i = 1 \/ ~IsWordChar(s[i - 1]))}
        stop(i) == CHOOSE j \in i..n :
                      /\ \A k \in i..j : IsWordChar(s[k])
                      /\ (j = n \/ ~IsWordChar(s[j + 1]))
    IN  {SubSeq(s, i, stop(i)) : i \in starts}

\* " ".join(parts)
RECURSIVE Join(_)
Join(parts) ==
    IF parts = <<>> THEN <<>>
    ELSE IF Len(parts) = 1 THEN parts[1]
    ELSE parts[1] \o <<" ">> \o Join(Tail(parts))

----------------------------------------------------------------------------
(* grounding.py *)

SimScale == Rat(7, 10)                                \* the 0.7 of line 26
OneWeight == <<One>>                                  \* [1.0]
TwoWeights == <<Rat(7, 10), Rat(3, 10)>>              \* [0.7, 0.3]
TopThreeWeights == <<Rat(6, 10), Rat(3, 10), Rat(1, 10)>>   \* [0.6, 0.3, 0.1]

\* np.average(a, weights=w)
Average(a, w) ==
    RDiv(RSum([i \in 1..Len(a) |-> RMul(a[i], w[i])]), RSum(w))

\* as SimWeights, but every result weighs the same
SimWeights_uniform(n) == [i \in 1..n |-> Rat(1, n)]

SimWeights(n) ==
    IF n = 1 THEN OneWeight
    ELSE IF n = 2 THEN TwoWeights
    ELSE LET padded == TopThreeWeights \o [i \in 1..(n - 3) |-> Zero]
             cut == SubSeq(padded, 1, n)
             total == RSum(cut)
         IN  [i \in 1..n |-> RDiv(cut[i], total)]

\* as compute_retrieval_similarity, but with the conversion 1 / (1 + d) that
\* the comment of line 24 describes
compute_retrieval_similarity_unscaled(ds) ==
    IF ds = <<>> THEN Zero
    ELSE LET sims == [i \in 1..Len(ds) |-> RDiv(One, RAdd(One, ds[i]))]
             weights == SimWeights(Len(sims))
             score == Average(sims, weights)
         IN  RMul(score, Hundred)

compute_retrieval_similarity(ds) ==
    IF ds = <<>> THEN Zero
    ELSE LET sims == [i \in 1..Len(ds) |-> RDiv(One, RAdd(One, RMul(ds[i], SimScale)))]
             weights == SimWeights(Len(sims))
             score == Average(sims, weights)
         IN  RMul(score, Hundred)

\* as compute_citation_coverage, but counting the passages whose source is
\* cited instead of the distinct sources, and without the cap
compute_citation_coverage_per_passage(ans, ps) ==
    IF ps = <<>> THEN Zero
    ELSE LET available_sources == {ps[i].source : i \in 1..Len(ps)} \ {<<>>}
             lower_answer == Lower(ans)
             cited_count == Cardinality({i \in 1..Len(ps) :
                                            /\ ps[i].source # <<>>
                                            /\ Contains(lower_answer, Lower(ps[i].source))})
         IN  IF available_sources = {} THEN Zero
             ELSE RMul(Rat(cited_count, Cardinality(available_sources)), Hundred)

\* as compute_citation_coverage, but comparing letter case
compute_citation_coverage_exact_case(ans, ps) ==
    IF ps = <<>> THEN Zero
    ELSE LET available_sources == {ps[i].source : i \in 1..Len(ps)} \ {<<>>}
             cited_count == Cardinality({src \in available_sources : Contains(ans, src)})
         IN  IF available_sources = {} THEN Zero
             ELSE RMin(Hundred,
                       RMul(Rat(cited_count, Cardinality(available_sources)), Hundred))

compute_citation_coverage(ans, ps) ==
    IF ps = <<>> THEN Zero
    ELSE LET available_sources == {ps[i].source : i \in 1..Len(ps)} \ {<<>>}
             lower_answer == Lower(ans)
             cited_count == Cardinality({src \in available_sources :
                                            Contains(lower_answer, Lower(src))})
         IN  IF available_sources = {} THEN Zero
             ELSE RMin(Hundred,
                       RMul(Rat(cited_count, Cardinality(available_sources)), Hundred))

stopwords == { <<"t", "h", "e">>, <<"a">>, <<"a", "n">>, <<"a", "n", "d">>,
               <<"o", "r">>, <<"b", "u", "t">>, <<"i", "n">>, <<"o", "n">>,
               <<"a", "t">>, <<"t", "o">>, <<"f", "o", "r">>, <<"o", "f">>,
               <<"w", "i", "t", "h">> }

TopK == 3     \* docs[:3]

\* as compute_source_overlap, but over all passages instead of the first three
compute_source_overlap_all_docs(ans, ps, q) ==
    IF ps = <<>> THEN Zero
    ELSE LET combined_source_text == Join([i \in 1..Len(ps) |-> Lower(ps[i].page_content)])
             answer_tokens == Tokens(Lower(ans))
             source_tokens == Tokens(combined_source_text)
             query_tokens == Tokens(Lower(q))
             relevant_answer_tokens == (answer_tokens \ stopwords) \ query_tokens
             overlap_count == Cardinality(relevant_answer_tokens \cap source_tokens)
         IN  IF relevant_answer_tokens = {} THEN Zero
             ELSE RMin(Hundred,
                       RMul(Rat(overlap_count, Cardinality(relevant_answer_tokens)), Hundred))

compute_source_overlap(ans, ps, q) ==
    IF ps = <<>> THEN Zero
    ELSE LET top == Slice(ps, TopK)
             combined_source_text == Join([i \in 1..Len(top) |-> Lower(top[i].page_content)])
             answer_tokens == Tokens(Lower(ans))
             source_tokens == Tokens(combined_source_text)
             query_tokens == Tokens(Lower(q))
             relevant_answer_tokens == (answer_tokens \ stopwords) \ query_tokens
             overlap_count == Cardinality(relevant_answer_tokens \cap source_tokens)
         IN  IF relevant_answer_tokens = {} THEN Zero
             ELSE RMin(Hundred,
                       RMul(Rat(overlap_count, Cardinality(relevant_answer_tokens)), Hundred))

WarningMarker == <<"w", "a", "r", "n", "i", "n", "g", ":">>
WarningWindow == 50
SafeScore == Rat(100, 1)
PenaltyScore == Rat(20, 1)

hallucination_safe(ans) ==
    IF Contains(Slice(Lower(ans), WarningWindow), WarningMarker)
    THEN PenaltyScore ELSE SafeScore

W_SIM == Rat(4, 10)
W_COV == Rat(2, 10)
W_OVERLAP == Rat(2, 10)
W_SAFETY == Rat(2, 10)

LowThreshold == Rat(50, 1)
HighThreshold == Rat(75, 1)

LowText == "Low confidence: Weak retrieval match or missing citations."
MediumText == "Medium confidence: Good retrieval but partial overlap."
HighText == "High confidence"

\* as Explanation, but with <= in both comparisons
Explanation_inclusive(overall) ==
    IF RLe(overall, LowThreshold) THEN LowText
    ELSE IF RLe(overall, HighThreshold) THEN MediumText
    ELSE HighText

Explanation(overall) ==
    IF RLt(overall, LowThreshold) THEN LowText
    ELSE IF RLt(overall, HighThreshold) THEN MediumText
    ELSE HighText

\* as compute_grounding_score, but with the weights 30/20/30/20 that the
\* comments of lines 110-119 name
compute_grounding_score_comment_weights(q, ans, ps, ds) ==
    LET retrieval_sim == compute_retrieval_similarity(ds)
        citation_cov == compute_citation_coverage(ans, ps)
        source_ov == compute_source_overlap(ans, ps, q)
        safe == hallucination_safe(ans)
        overall == RAdd(RAdd(RAdd(RMul(retrieval_sim, Rat(3, 10)), RMul(citation_cov, Rat(2, 10))),
                             RMul(source_ov, Rat(3, 10))),
                        RMul(safe, Rat(2, 10)))
    IN  [overall_score |-> overall,
         retrieval_similarity |-> retrieval_sim,
         citation_coverage |-> citation_cov,
         source_overlap |-> source_ov,
         hallucination_risk |-> safe,
         explanation |-> Explanation(overall)]

compute_grounding_score(q, ans, ps, ds) ==
    LET retrieval_sim == compute_retrieval_similarity(ds)
        citation_cov == compute_citation_coverage(ans, ps)
        source_ov == compute_source_overlap(ans, ps, q)
        safe == hallucination_safe(ans)
        overall == RAdd(RAdd(RAdd(RMul(retrieval_sim, W_SIM), RMul(citation_cov, W_COV)),
                             RMul(source_ov, W_OVERLAP)),
                        RMul(safe, W_SAFETY))
    IN  [overall_score |-> overall,
         retrieval_similarity |-> retrieval_sim,
         citation_coverage |-> citation_cov,
         source_overlap |-> source_ov,
         hallucination_risk |-> safe,
         explanation |-> Explanation(overall)]

----------------------------------------------------------------------------
(* reasoning.py *)

\* Python values: texts are strings here, since reasoning.py only compares them
PyStr(t) == [kind |-> "str", s |-> t, items |-> <<>>, b |-> FALSE, n |-> 0]
PyList(l) == [kind |-> "list", s |-> "", items |-> l, b |-> FALSE, n |-> 0]
PyBool(v) == [kind |-> "bool", s |-> "", items |-> <<>>, b |-> v, n |-> 0]
PyInt(i) == [kind |-> "int", s |-> "", items |-> <<>>, b |-> FALSE, n |-> i]
PyNone == [kind |-> "None", s |-> "", items |-> <<>>, b |-> FALSE, n |-> 0]

\* bool(v)
Truthy(v) ==
    CASE v.kind = "str" -> v.s # ""
      [] v.kind = "list" -> v.items # <<>>
      [] v.kind = "bool" -> v.b
      [] v.kind = "int" -> v.n # 0
      [] OTHER -> FALSE

\* exceptions, by their message (str(e))
KeyMissingError == "GROQ_API_KEY not found in environment variables."
IndexError == "list index out of range"
JSONDecodeError == "Expecting value"
TypeError == "TypeError"
AttributeError == "object has no attribute 'get'"
InvokeErrors == {"Connection error.", "Rate limit reached"}

\* subclasses of Exception
IsException(e) ==
    e \in {KeyMissingError, IndexError, JSONDecodeError, TypeError, AttributeError}
              \cup InvokeErrors

\* the raw response is a sequence of lexical atoms: a code fence (three backticks), a newline,
\* a run of other text, or the text of one JSON document
Fence == "FENCE"
Newline == "NL"
Prose == "json"
Document == "DOC"
Atoms == {Fence, Newline, Prose, Document}

\* str.strip()
RECURSIVE LStrip(_)
LStrip(t) == IF t # <<>> /\ Head(t) = Newline THEN LStrip(Tail(t)) ELSE t

RECURSIVE RStrip(_)
RStrip(t) ==
    IF t # <<>> /\ t[Len(t)] = Newline THEN RStrip(SubSeq(t, 1, Len(t) - 1)) ELSE t

Strip(t) == RStrip(LStrip(t))

\* t.split("\n", 1): the parts before and after the first newline
Split1(t) ==
    IF \E i \in 1..Len(t) : t[i] = Newline
    THEN LET i == CHOOSE k \in 1..Len(t) :
                     t[k] = Newline /\ \A j \in 1..(k - 1) : t[j] # Newline
         IN  <<SubSeq(t, 1, i - 1), SubSeq(t, i + 1, Len(t))>>
    ELSE <<t>>

\* lines 65-70: strip the text and remove a code fence
Unfence(raw_response) ==
    LET stripped == Strip(raw_response)
    IN  IF stripped # <<>> /\ Head(stripped) = Fence
        THEN LET parts == Split1(stripped)
             IN  IF Len(parts) < 2 THEN [exc |-> IndexError, text |-> <<>>]
                 ELSE LET rest == parts[2]
                          cut == IF rest # <<>> /\ rest[Len(rest)] = Fence
                                 THEN SubSeq(rest, 1, Len(rest) - 1) ELSE rest
                      IN  [exc |-> "", text |-> Strip(cut)]
        ELSE [exc |-> "", text |-> stripped]

\* JSON documents the model may produce: valid or not, and the value they
\* parse to.  elems: for a list its string elements, for a string the keys
\* that occur in it.
JsonDict(f) == [valid |-> TRUE, kind |-> "dict", fields |-> f, elems |-> {}]
JsonOther(k, e) == [valid |-> TRUE, kind |-> k, fields |-> <<>>, elems |-> e]
JsonInvalid == [valid |-> FALSE, kind |-> "", fields |-> <<>>, elems |-> {}]

\* json.loads(text)
Loads(text, doc) ==
    IF Strip(text) = <<Document>> /\ doc.valid
    THEN [exc |-> "", value |-> doc]
    ELSE [exc |-> JSONDecodeError, value |-> JsonInvalid]

required_keys == <<"core_intent", "reasoning_keywords", "sub_queries", "expanded_query">>

\* key in result
HasKey(result, key) ==
    IF result.kind = "dict" THEN key \in DOMAIN result.fields
    ELSE key \in result.elems

SupportsIn(result) == result.kind \in {"dict", "list", "str"}

Default(key, q) ==
    IF key \in {"reasoning_keywords", "sub_queries"} THEN PyList(<<>>) ELSE PyStr(q)

\* len(v)
HasLen(v) == v.kind \in {"str", "list"}
PyLen(v) == IF v.kind = "list" THEN Len(v.items) ELSE Len(v.s)

Put(f, key, v) == [k \in DOMAIN f \cup {key} |-> IF k = key THEN v ELSE f[k]]

\* lines 74-77: the loop over required_keys
RECURSIVE FillRequired(_, _, _)
FillRequired(result, keys, q) ==
    IF keys = <<>> THEN [exc |-> "", value |-> result]
    ELSE IF ~SupportsIn(result) THEN [exc |-> TypeError, value |-> result]
    ELSE IF HasKey(result, Head(keys)) THEN FillRequired(result, Tail(keys), q)
    ELSE IF result.kind # "dict" THEN [exc |-> TypeError, value |-> result]
    ELSE FillRequired([result EXCEPT !.fields = Put(@, Head(keys), Default(Head(keys), q))],
                      Tail(keys), q)

\* lines 79-80
FillMultiHop(result) ==
    IF ~SupportsIn(result) THEN [exc |-> TypeError, value |-> result]
    ELSE IF HasKey(result, "is_multi_hop") THEN [exc |-> "", value |-> result]
    ELSE IF result.kind # "dict" THEN [exc |-> AttributeError, value |-> result]
    ELSE LET subs == IF "sub_queries" \in DOMAIN result.fields
                     THEN result.fields["sub_queries"] ELSE PyList(<<>>)
         IN  IF ~HasLen(subs) THEN [exc |-> TypeError, value |-> result]
             ELSE [exc |-> "",
                   value |-> [result EXCEPT
                                 !.fields = Put(@, "is_multi_hop", PyBool(PyLen(subs) > 1))]]

\* line 82
SetOriginal(result, q) ==
    IF result.kind # "dict" THEN [exc |-> TypeError, value |-> result]
    ELSE [exc |-> "",
          value |-> [result EXCEPT !.fields = Put(@, "original_query", PyStr(q))]]

\* lines 54-84: the body of the try block; exc is the exception raised in it
TryBody(q, key, outcome, doc) ==
    IF ~key THEN [exc |-> KeyMissingError, value |-> JsonInvalid]
    ELSE IF outcome.raises # "" THEN [exc |-> outcome.raises, value |-> JsonInvalid]
    ELSE LET u == Unfence(outcome.raw)
         IN  IF u.exc # "" THEN [exc |-> u.exc, value |-> JsonInvalid]
             ELSE LET l == Loads(u.text, doc)
                  IN  IF l.exc # "" THEN l
                      ELSE LET f == FillRequired(l.value, required_keys, q)
                           IN  IF f.exc # "" THEN f
                               ELSE LET m == FillMultiHop(f.value)
                                    IN  IF m.exc # "" THEN m
                                        ELSE SetOriginal(m.value, q)

\* lines 86-95
Fallback(q, e) ==
    [k \in {"original_query", "core_intent", "reasoning_keywords", "sub_queries",
            "expanded_query", "is_multi_hop", "error"} |->
        CASE k \in {"original_query", "core_intent", "expanded_query"} -> PyStr(q)
          [] k \in {"reasoning_keywords", "sub_queries"} -> PyList(<<>>)
          [] k = "is_multi_hop" -> PyBool(FALSE)
          [] OTHER -> PyStr(e)]

\* as Caught, for the clause "except json.JSONDecodeError"
Caught_decode_errors_only(e) == e = JSONDecodeError

\* except (json.JSONDecodeError, Exception)
Caught(e) == e = JSONDecodeError \/ IsException(e)

NoDict == [original_query |-> PyStr("")]

\* what a call returns: the exception raised in the try block, the exception
\* that leaves the function, and the returned dict
expand_query(q, key, outcome) ==
    LET t == TryBody(q, key, outcome, outcome.doc)
    IN  IF t.exc = "" THEN [raised |-> "", propagated |-> "", result |-> t.value.fields]
        ELSE IF Caught(t.exc)
             THEN [raised |-> t.exc, propagated |-> "", result |-> Fallback(q, t.exc)]
             ELSE [raised |-> t.exc, propagated |-> t.exc, result |-> NoDict]

\* dict.get(key, "")
Get(d, key) == IF key \in DOMAIN d THEN d[key] ELSE PyStr("")

\* as get_search_query, but without the test that expanded is non-empty
get_search_query_unchecked(r) ==
    LET expanded == Get(r, "expanded_query")
        original == Get(r, "original_query")
    IN  IF expanded # original THEN expanded ELSE original

get_search_query(r) ==
    LET expanded == Get(r, "expanded_query")
        original == Get(r, "original_query")
    IN  IF Truthy(expanded) /\ expanded # original THEN expanded ELSE original

----------------------------------------------------------------------------
(* semantic_extractor.py *)

\* a chunk shorter than this gets no classification call
ShortChunk == 200

\* content[:1500] is what a classification call is given
InvokeLimit == 1500

\* section types are sequences of characters, since the code lowercases them
Other == <<"o", "t", "h", "e", "r">>
Objective == <<"o", "b", "j", "e", "c", "t", "i", "v", "e">>
Methodology == <<"m", "e", "t", "h", "o", "d", "o", "l", "o", "g", "y">>
Results == <<"r", "e", "s", "u", "l", "t", "s">>
Claims == <<"c", "l", "a", "i", "m", "s">>
Limitations == <<"l", "i", "m", "i", "t", "a", "t", "i", "o", "n", "s">>

\* fallback_map, lines 61-67, in the order of the dict: the alternatives of each
\* pattern, all under (?i), and the section type of the pattern
fallback_map ==
    <<[pattern |-> <<<<"a", "b", "s", "t", "r", "a", "c", "t">>,
                     <<"i", "n", "t", "r", "o", "d", "u", "c", "t", "i", "o", "n">>,
                     <<"g", "o", "a", "l">>,
                     <<"o", "b", "j", "e", "c", "t", "i", "v", "e">>>>,
       stype |-> Objective],
      [pattern |-> <<<<"m", "e", "t", "h", "o", "d">>,
                     <<"a", "l", "g", "o", "r", "i", "t", "h", "m">>,
                     <<"s", "e", "t", "u", "p">>,
                     <<"d", "a", "t", "a">>>>,
       stype |-> Methodology],
      [pattern |-> <<<<"r", "e", "s", "u", "l", "t">>,
                     <<"p", "e", "r", "f", "o", "r", "m", "a", "n", "c", "e">>,
                     <<"a", "c", "c", "u", "r", "a", "c", "y">>,
                     <<"t", "a", "b", "l", "e">>>>,
       stype |-> Results],
      [pattern |-> <<<<"d", "i", "s", "c", "u", "s", "s", "i", "o", "n">>,
                     <<"c", "o", "n", "c", "l", "u", "s", "i", "o", "n">>,
                     <<"c", "l", "a", "i", "m">>>>,
       stype |-> Claims],
      [pattern |-> <<<<"l", "i", "m", "i", "t", "a", "t", "i", "o", "n">>,
                     <<"f", "u", "t", "u", "r", "e", " ", "w", "o", "r", "k">>>>,
       stype |-> Limitations]>>

\* the lowercase form of each uppercase letter
UpperToLower ==
    [c \in {UpperLetters[k] : k \in 1..26} |->
        LowerLetters[CHOOSE k \in 1..26 : UpperLetters[k] = c]]

\* the form under which (?i) compares a character of the text with a lowercase
\* letter of the pattern
Folded(c) == IF c \in DOMAIN UpperToLower THEN UpperToLower[c] ELSE c

\* re.search(pattern, content) finds a match, for a pattern of literal
\* alternatives under (?i)
Search(pattern, content) ==
    \E k \in 1..Len(pattern) :
        \E at \in 0..(Len(content) - Len(pattern[k])) :
            \A j \in 1..Len(pattern[k]) : Folded(content[at + j]) = pattern[k][j]

\* lines 119-122: the section type of the first pattern that matches
RECURSIVE FirstMatch(_, _, _)
FirstMatch(map, content, section_type) ==
    IF map = <<>> THEN section_type
    ELSE IF Search(Head(map).pattern, content) THEN Head(map).stype
    ELSE FirstMatch(Tail(map), content, section_type)

\* lines 118-122
RegexFallback(section_type, content) ==
    IF section_type = Other \/ section_type = <<>>
    THEN FirstMatch(fallback_map, content, section_type)
    ELSE section_type

\* get_tagging_llm, lines 41-50: None without the key
get_tagging_llm(key) == key

\* lines 102-106: strip the response and remove a code fence
CleanedResponse(response) ==
    LET stripped == Strip(response)
    IN  IF stripped # <<>> /\ Head(stripped) = Fence
        THEN LET parts == Split1(stripped)
             IN  IF Len(parts) < 2 THEN [exc |-> IndexError, text |-> <<>>]
                 ELSE LET rest == parts[2]
                      IN  [exc |-> "",
                           text |-> IF rest # <<>> /\ rest[Len(rest)] = Fence
                                    THEN SubSeq(rest, 1, Len(rest) - 1) ELSE rest]
        ELSE [exc |-> "", text |-> stripped]

\* lines 108-110: the section type and the title the response gives
TagsOf(data) ==
    IF data.kind # "dict" THEN [exc |-> AttributeError]
    ELSE LET given == IF "section_type" \in DOMAIN data.fields
                      THEN data.fields["section_type"] ELSE PyStr(Other)
         IN  IF given.kind # "str" THEN [exc |-> AttributeError]
             ELSE [exc |-> "",
                   section_type |-> Lower(given.s),
                   paper_title |-> IF "paper_title" \in DOMAIN data.fields
                                   THEN data.fields["paper_title"] ELSE PyNone]

\* lines 95-115: the try block; nothing is assigned when it raises
Classified(outcome) ==
    IF outcome.raises # "" THEN [exc |-> outcome.raises]
    ELSE LET c == CleanedResponse(outcome.raw)
         IN  IF c.exc # "" THEN [exc |-> c.exc]
             ELSE LET l == Loads(c.text, outcome.doc)
                  IN  IF l.exc # "" THEN [exc |-> l.exc] ELSE TagsOf(l.value)

\* as TagCaught, for a clause "except json.JSONDecodeError"
TagCaught_decode_errors_only(e) == e = JSONDecodeError

\* line 112: except Exception
TagCaught(e) == IsException(e)

\* as NeedsCall, but without the test of the length
NeedsCall_any_length(content, chain_built) == chain_built

\* lines 92-94: whether chain.invoke is reached for a chunk
NeedsCall(content, chain_built) == Len(content) >= ShortChunk /\ chain_built

\* lines 124-129: the metadata the chunk gets
Metadata(section_type, paper_title) ==
    LET title == IF paper_title = PyStr("null") THEN PyNone ELSE paper_title
    IN  IF Truthy(title)
        THEN [section_type |-> section_type, paper_title |-> title]
        ELSE [section_type |-> section_type]

\* lines 94-115: the exception that leaves the round of the loop, "" when none
Propagated(content, chain_built, outcome) ==
    IF ~NeedsCall(content, chain_built) THEN ""
    ELSE LET c == Classified(outcome)
         IN  IF c.exc = "" \/ TagCaught(c.exc) THEN "" ELSE c.exc

\* lines 84-131: one round of the loop that no exception leaves; outcome is
\* what the classification call does when it is made
Enriched(content, chain_built, outcome) ==
    LET c == IF NeedsCall(content, chain_built) THEN Classified(outcome)
             ELSE [exc |-> "", section_type |-> Other, paper_title |-> PyNone]
        section_type == IF c.exc = "" THEN c.section_type ELSE Other
        paper_title == IF c.exc = "" THEN c.paper_title ELSE PyNone
    IN  [page_content |-> content,
         metadata |-> Metadata(RegexFallback(section_type, content), paper_title)]

----------------------------------------------------------------------------
(* evaluation.py: the interaction log *)

\* The text of eval_logs.json is a sequence of tokens: the brackets and the
\* commas of the JSON array, and two tokens for each entry, its first half
\* (timestamp, query, answer_length) and its second half (grounding_score,
\* metrics).
NoEntry ==
    [timestamp |-> 0, query |-> <<>>, answer_length |-> 0, grounding_score |-> Zero,
     metrics |-> [retrieval_similarity |-> Zero, citation_coverage |-> Zero,
                  source_overlap |-> Zero, hallucination_risk |-> Zero]]

Punct(k) == [kind |-> k, entry |-> NoEntry, half |-> 0]
OpenBracket == Punct("[")
CloseBracket == Punct("]")
Comma == Punct(",")
Half(e, k) == [kind |-> "half", entry |-> e, half |-> k]
EntryText(e) == <<Half(e, 1), Half(e, 2)>>

\* log_interaction, lines 26-37.  timestamp = 0 stands for None.
log_entry(q, ans, grounding_score, retrieval_sim, citation_cov, source_ov, risk, timestamp, now) ==
    [timestamp |-> IF timestamp # 0 THEN timestamp ELSE now,
     query |-> q,
     answer_length |-> Len(ans),
     grounding_score |-> grounding_score,
     metrics |-> [retrieval_similarity |-> retrieval_sim,
                  citation_coverage |-> citation_cov,
                  source_overlap |-> source_ov,
                  hallucination_risk |-> risk]]

\* json.dump(data, f, indent=2)
RECURSIVE DumpItems(_)
DumpItems(data) ==
    IF data = <<>> THEN <<>>
    ELSE IF Len(data) = 1 THEN EntryText(data[1])
    ELSE EntryText(data[1]) \o <<Comma>> \o DumpItems(Tail(data))

Dumps(data) == <<OpenBracket>> \o DumpItems(data) \o <<CloseBracket>>

\* the object that the text of a first half followed by the text of a second
\* half parses to
Joined(a, b) ==
    [timestamp |-> a.entry.timestamp,
     query |-> a.entry.query,
     answer_length |-> a.entry.answer_length,
     grounding_score |-> b.entry.grounding_score,
     metrics |-> b.entry.metrics]

IsObject(t) ==
    /\ Len(t) >= 2
    /\ t[1].kind = "half" /\ t[1].half = 1
    /\ t[2].kind = "half" /\ t[2].half = 2

\* the items of "entry , entry , ..."
RECURSIVE LoadItems(_)
LoadItems(t) ==
    IF ~IsObject(t) THEN [ok |-> FALSE, items |-> <<>>]
    ELSE IF Len(t) = 2 THEN [ok |-> TRUE, items |-> <<Joined(t[1], t[2])>>]
    ELSE IF t[3] # Comma THEN [ok |-> FALSE, items |-> <<>>]
    ELSE LET r == LoadItems(SubSeq(t, 4, Len(t)))
         IN  [ok |-> r.ok, items |-> IF r.ok THEN <<Joined(t[1], t[2])>> \o r.items ELSE <<>>]

\* json.loads(text): ok is FALSE when it raises
LoadLog(text) ==
    IF Len(text) < 2 \/ Head(text) # OpenBracket \/ text[Len(text)] # CloseBracket
    THEN [ok |-> FALSE, items |-> <<>>]
    ELSE IF Len(text) = 2 THEN [ok |-> TRUE, items |-> <<>>]
    ELSE LoadItems(SubSeq(text, 2, Len(text) - 1))

NoFile == [exists |-> FALSE, text |-> <<>>]
LogFile(t) == [exists |-> TRUE, text |-> t]

\* the entries that are complete in a text, whether or not the text parses
RECURSIVE CompleteEntries(_)
CompleteEntries(t) ==
    IF Len(t) < 2 THEN <<>>
    ELSE IF IsObject(t) THEN <<Joined(t[1], t[2])>> \o CompleteEntries(SubSeq(t, 3, Len(t)))
    ELSE CompleteEntries(Tail(t))

\* _append_to_log, lines 46-50: data after the text read is parsed; a text that
\* does not parse leaves data = []
ParsedData(content) ==
    IF content = <<>> THEN <<>>
    ELSE LET l == LoadLog(content)
         IN  IF l.ok THEN l.items ELSE <<>>

\* _append_to_log, lines 42-50
ReadData(file) == IF file.exists THEN ParsedData(file.text) ELSE <<>>

\* _append_to_log, lines 41-55, run without interruption
append_to_log(file, entry) == LogFile(Dumps(Append(ReadData(file), entry)))

\* as LoadedLogs, but a text that breaks off inside an entry is completed with
\* empty fields instead of being rejected
LoadedLogs_partial(text) ==
    LET firsts == {i \in 1..Len(text) : text[i].kind = "half" /\ text[i].half = 1}
        order == CHOOSE f \in [1..Cardinality(firsts) -> firsts] :
                    \A i, j \in 1..Cardinality(firsts) : i < j => f[i] < f[j]
    IN  [k \in 1..Cardinality(firsts) |->
            IF order[k] < Len(text) /\ text[order[k] + 1].kind = "half"
                                   /\ text[order[k] + 1].half = 2
            THEN Joined(text[order[k]], text[order[k] + 1])
            ELSE Joined(text[order[k]], Half(NoEntry, 2))]

\* get_logs, lines 60-63: json.load, and [] when it raises
LoadedLogs(text) ==
    LET l == LoadLog(text)
    IN  IF l.ok THEN l.items ELSE <<>>

\* get_logs, lines 57-64, run without interruption
get_logs(file) == IF file.exists THEN LoadedLogs(file.text) ELSE <<>>

----------------------------------------------------------------------------
(* engine.py, ingest.py and the handlers of app.py and benchmark.py *)

ValueErrorNoKey == KeyMissingError
SearchError == "Error in faiss search"
GenerationErrors == {"Connection error.", "Rate limit reached"}
ZeroDivisionError == "division by zero"

\* as load_vector_db, but returning an empty store when there is no index
load_vector_db_empty_store(exists) == TRUE

\* ingest.py, load_vector_db: TRUE for a store, FALSE for None
load_vector_db(exists) == exists

\* engine.py, get_llm: the exception it raises ("" if none)
get_llm(key) == IF ~key THEN ValueErrorNoKey ELSE ""

Unknown == <<"U", "n", "k", "n", "o", "w", "n">>

\* search_with_context, lines 37-39
CollectDistances(found) == [i \in 1..Len(found) |-> found[i].score]

CollectDocs(found) == [i \in 1..Len(found) |-> found[i].doc]

\* search_with_context, lines 42-51: one block of the prompt context
ContextBlock(doc) ==
    [header |-> IF doc.source = <<>> THEN Unknown ELSE doc.source,
     page_content |-> doc.page_content]

ProcessedContext(found) == [i \in 1..Len(found) |-> ContextBlock(found[i].doc)]

\* get_answer, lines 65-69: the exception raised while reasoning_info is
\* built ("" if none); ', '.join(v) needs a sequence of texts
ReasoningInfoError(reasoning) ==
    LET kw == reasoning["reasoning_keywords"]
        sq == reasoning["sub_queries"]
    IN  IF Truthy(kw) /\ kw.kind \notin {"list", "str"} THEN TypeError
        ELSE IF Truthy(sq) /\ sq.kind \notin {"list", "str"} THEN TypeError
        ELSE ""

\* get_answer, line 104
ScoredDocs(found) == [i \in 1..Len(found) |-> found[i].doc]

\* as ScoredDistances, but in descending order of position
ScoredDistances_reversed(found) ==
    [i \in 1..Len(found) |-> found[Len(found) + 1 - i].score]

\* get_answer, line 103
ScoredDistances(found) == [i \in 1..Len(found) |-> found[i].score]

GetAnswerStages ==
    <<"get_llm", "expand_query", "get_search_query", "similarity_search", "context",
      "reasoning_info", "generate", "compute_grounding_score">>

StageIndex(stage) == CHOOSE i \in 1..Len(GetAnswerStages) : GetAnswerStages[i] = stage

\* as get_answer_next, but a failed generation is attempted a second time
get_answer_next_retry(stage, exc) ==
    IF exc # "" /\ stage = "generate"
          /\ Cardinality({i \in 1..Len(stages) : stages[i] = "generate"}) < 1
    THEN "generate"
    ELSE IF exc # "" THEN "raised"
    ELSE IF stage = "compute_grounding_score" THEN "returned"
    ELSE GetAnswerStages[StageIndex(stage) + 1]

\* get_answer, lines 60-107, and search_with_context, lines 28-58: what
\* follows a stage; an exception leaves get_answer, nothing catches it
get_answer_next(stage, exc) ==
    IF exc # "" THEN "raised"
    ELSE IF stage = "compute_grounding_score" THEN "returned"
    ELSE GetAnswerStages[StageIndex(stage) + 1]

\* messages of the handlers
Message(t, d) == [text |-> t, detail |-> d]
NoMessage == Message("", "")
NotReadyChat == Message("No knowledge base found. Please upload and process PDFs first.", "")
NotReadySynthesis == Message("Please upload PDFs first.", "")
NotReadyRapid == Message("Please process PDFs first!", "")
NotReadyBenchmark ==
    Message("Error: No FAISS index found. Please process PDFs in the app first.", "")
RetrievalError(e) == Message("Error during retrieval", e)
SynthesisFailed(e) == Message("Synthesis failed", e)
SynthesisComplete(e) == Message("Synthesis Complete!", e)
EnterTopic == Message("Please enter a topic.", "")
AnswerShown == Message("answer", "")
UncaughtError(e) == Message("uncaught", e)
EvaluationResults == Message("Evaluation Results", "")
BenchmarkReport == Message("Benchmark Report", "")

\* as ChatAfterAnswer, but logging in every case
ChatAfterAnswer_always_logs(exc) == "log_interaction"

\* app.py, lines 176-253: what the chat handler does after get_answer
ChatAfterAnswer(exc) == IF exc # "" THEN "except" ELSE "log_interaction"

----------------------------------------------------------------------------
(* Inputs of the scorers *)

\* distances, as the vector store returns them (non-negative)
DistanceSet == {Rat(0, 1), Rat(1, 10), Rat(1, 2), Rat(6, 5)}

\* the distances 10/21 and 10/49 give similarities of exactly 75 and 87.5
GradedDistances == { <<>>, <<Rat(0, 1)>>, <<Rat(10, 21)>>, <<Rat(10, 49)>>,
                     <<Rat(1, 10), Rat(1, 2), Rat(6, 5)>>,
                     <<Rat(10, 1), Rat(10, 1), Rat(10, 1)>> }

SeqsUpTo(S, n) == UNION {[1..k -> S] : k \in 0..n}

SourceA == <<"A", ".", "p", "d", "f">>
SourceB == <<"B", ".", "p", "d", "f">>
NoSource == <<>>

PassageA == [page_content |-> <<"A", "l", "p", "h", "a", " ", "b", "e", "t", "a">>, source |-> SourceA]
PassageB == [page_content |-> <<"g", "a", "m", "m", "a">>, source |-> SourceB]
PassageA2 == [page_content |-> <<"d", "e", "l", "t", "a">>, source |-> SourceA]
PassageN == [page_content |-> <<"t", "h", "e", " ", "b", "e", "t", "a">>, source |-> NoSource]

PassageSet == {PassageA, PassageB, PassageA2, PassageN}

GradedDocs == { <<>>, <<PassageA>>, <<PassageA, PassageB>>,
                <<PassageA, PassageB, PassageN, PassageA2>> }

AnswerEmpty == <<>>
AnswerCitesA == <<"a", "l", "p", "h", "a", " ", "[", "a", ".", "P", "D", "F", "]">>
AnswerCitesBoth == <<"A", ".", "p", "d", "f", " ", "B", ".", "p", "d", "f", " ", "b", "e", "t", "a">>
AnswerEcho == <<"t", "h", "e", " ", "L", "a", "s", "a", "g", "n", "a">>
AnswerMixed == <<"a", "l", "p", "h", "a", " ", "b", "e", "t", "a", " ", "g", "a", "m", "m", "a", " ", "z", "e", "t", "a">>
AnswerDelta == <<"d", "e", "l", "t", "a">>
AnswerPlain == <<"z", "e", "t", "a">>

TextAnswers == {AnswerEmpty, AnswerCitesA, AnswerCitesBoth, AnswerEcho, AnswerMixed,
                AnswerDelta, AnswerPlain}

QueryLasagna == <<"l", "a", "s", "a", "g", "n", "a">>
QueryAlpha == <<"w", "h", "a", "t", " ", "i", "s", " ", "A", "l", "p", "h", "a">>
QueryEmpty == <<>>

QuerySet == {QueryLasagna, QueryAlpha, QueryEmpty}

\* answers that carry the marker the generation prompt asks for, after a filler
Pad(n) == [i \in 1..n |-> "x"]
MarkerSpellings == { <<"W", "a", "r", "n", "i", "n", "g", ":">>, <<"W", "A", "R", "N", "I", "N", "G", ":">>, <<"w", "a", "r", "n", "i", "n", "g", ":">>, <<"W", "a", "r", "n", "i", "n", "g">> }
AnswerPrefixes == { <<>>, <<DottedCapitalI>> }
AnswerTail == <<" ", "n", "o", " ", "m", "a", "t", "c", "h">>

WarningAnswers ==
    {pre \o Pad(n) \o m \o AnswerTail :
        pre \in AnswerPrefixes, n \in 0..MaxPad, m \in MarkerSpellings}

\* graded answers that open with the marker
WarnedAnswers == { <<"W", "a", "r", "n", "i", "n", "g", ":", " ", "z", "e", "t", "a">>,
                   <<"W", "a", "r", "n", "i", "n", "g", ":", " ", "A", ".", "p", "d", "f", " ", "B", ".", "p", "d", "f", " ", "b", "e", "t", "a">> }

NoResult == [overall_score |-> Zero, retrieval_similarity |-> Zero,
             citation_coverage |-> Zero, source_overlap |-> Zero,
             hallucination_risk |-> Zero, explanation |-> ""]

\* one group of inputs per scorer, and one that grades whole answers
SimilarityInputs ==
    /\ distances \in SeqsUpTo(DistanceSet, MaxDistances)
    /\ docs = <<>> /\ answer = AnswerPlain /\ query = QueryLasagna

TextInputs ==
    /\ docs \in SeqsUpTo(PassageSet, MaxDocs)
    /\ answer \in TextAnswers
    /\ query \in QuerySet
    /\ distances = <<>>

WarningInputs ==
    /\ answer \in WarningAnswers
    /\ docs \in {<<>>, <<PassageA>>}
    /\ distances = <<Rat(0, 1)>>
    /\ query = QueryLasagna

GradedInputs ==
    /\ distances \in GradedDistances
    /\ docs \in GradedDocs
    /\ answer \in TextAnswers \cup WarnedAnswers
    /\ query \in {QueryLasagna, QueryAlpha}

ReasoningIdle ==
    /\ user_query = ""
    /\ api_key = FALSE
    /\ llm_outcome = [raises |-> "", raw |-> <<>>, doc |-> JsonInvalid]
    /\ rpc = "idle"
    /\ raised = ""
    /\ propagated = ""
    /\ reasoning_result = NoDict
    /\ search_query = PyStr("")

\* extract_semantic_sections is not running
IngestIdle ==
    /\ epc = "idle"
    /\ chunks = <<>>
    /\ chain = FALSE
    /\ chunk_index = 0
    /\ enriched_docs = <<>>
    /\ invoked = <<>>
    /\ responses = <<>>

AppIdle ==
    /\ index_exists = FALSE
    /\ handler = "none"
    /\ hpc = "idle"
    /\ stages = <<>>
    /\ raw_results = <<>>
    /\ ctx_docs = <<>>
    /\ ctx_distances = <<>>
    /\ processed_context = <<>>
    /\ pre_gen_confidence = Zero
    /\ error = ""
    /\ message = NoMessage
    /\ log_before = NoFile
    /\ log_calls = 0
    /\ searches = 0
    /\ asked = 0
    /\ test_case = 0
    /\ results = <<>>
    /\ uploaded_files = <<>>
    /\ index_before = FALSE
    /\ processed = "none"

\* no log_interaction and no get_logs call is running
LogProcessesIdle ==
    /\ wpc = "idle"
    /\ w_entry = NoEntry
    /\ w_before = NoFile
    /\ w_data = <<>>
    /\ w_pending = <<>>
    /\ logged = <<>>
    /\ w2pc = "idle"
    /\ w2_entry = NoEntry
    /\ w2_data = <<>>
    /\ w2_pending = <<>>
    /\ gpc = "idle"
    /\ g_size = 0
    /\ g_buf = <<>>
    /\ g_ret = <<>>
    /\ g_start = NoFile
    /\ g_logged = <<>>
    /\ g_overlap = 0

LogIdle ==
    /\ log_file = NoFile
    /\ clock = 1
    /\ LogProcessesIdle

InitGrounding ==
    /\ SimilarityInputs \/ TextInputs \/ WarningInputs \/ GradedInputs
    /\ called = "none"
    /\ ret = Zero
    /\ grounding = NoResult
    /\ prev_distances = <<>>
    /\ prev_ret = Zero
    /\ ReasoningIdle
    /\ AppIdle
    /\ LogIdle
    /\ IngestIdle

----------------------------------------------------------------------------
(* Calls of the scorers *)

CallRetrievalSimilarity ==
    /\ called = "none"
    /\ ret' = compute_retrieval_similarity(distances)
    /\ called' = "compute_retrieval_similarity"
    /\ UNCHANGED <<query, answer, docs, distances, grounding, prev_distances, prev_ret>>
    /\ UNCHANGED rvars
    /\ UNCHANGED <<avars, lvars, ivars>>

\* a second call, on the same distances but for one that is replaced by a
\* strictly smaller one
CallRetrievalSimilarityCloser ==
    /\ called = "compute_retrieval_similarity"
    /\ \E i \in 1..Len(distances) : \E d \in DistanceSet :
          /\ RLt(d, distances[i])
          /\ distances' = [distances EXCEPT ![i] = d]
    /\ prev_distances' = distances
    /\ prev_ret' = ret
    /\ ret' = compute_retrieval_similarity(distances')
    /\ UNCHANGED <<query, answer, docs, called, grounding>>
    /\ UNCHANGED rvars
    /\ UNCHANGED <<avars, lvars, ivars>>

CallCitationCoverage ==
    /\ called = "none"
    /\ ret' = compute_citation_coverage(answer, docs)
    /\ called' = "compute_citation_coverage"
    /\ UNCHANGED <<query, answer, docs, distances, grounding, prev_distances, prev_ret>>
    /\ UNCHANGED rvars
    /\ UNCHANGED <<avars, lvars, ivars>>

CallSourceOverlap ==
    /\ called = "none"
    /\ ret' = compute_source_overlap(answer, docs, query)
    /\ called' = "compute_source_overlap"
    /\ UNCHANGED <<query, answer, docs, distances, grounding, prev_distances, prev_ret>>
    /\ UNCHANGED rvars
    /\ UNCHANGED <<avars, lvars, ivars>>

CallGroundingScore ==
    /\ called = "none"
    /\ grounding' = compute_grounding_score(query, answer, docs, distances)
    /\ called' = "compute_grounding_score"
    /\ UNCHANGED <<query, answer, docs, distances, ret, prev_distances, prev_ret>>
    /\ UNCHANGED rvars
    /\ UNCHANGED <<avars, lvars, ivars>>

NextGrounding ==
    \/ CallRetrievalSimilarity
    \/ CallRetrievalSimilarityCloser
    \/ CallCitationCoverage
    \/ CallSourceOverlap
    \/ CallGroundingScore

SpecGrounding == InitGrounding /\ [][NextGrounding]_vars

----------------------------------------------------------------------------
(* Properties of the scorers *)

InRange(x) == RLe(Zero, x) /\ RLe(x, Hundred)

\* C2: every score of the GroundingResult that compute_grounding_score returns
\* lies in [0,100].
C2_ScoresBounded ==
    called = "compute_grounding_score" =>
        /\ InRange(grounding.retrieval_similarity)
        /\ InRange(grounding.citation_coverage)
        /\ InRange(grounding.source_overlap)
        /\ InRange(grounding.hallucination_risk)
        /\ InRange(grounding.overall_score)

\* a graded answer that cites every source, twice over for one of them
C2_Witness ==
    /\ called = "compute_grounding_score"
    /\ grounding.citation_coverage = Hundred
    /\ \E i, j \in 1..Len(docs) : i # j /\ docs[i].source = docs[j].source
    /\ RLt(Zero, grounding.retrieval_similarity)
    /\ RLt(Zero, grounding.source_overlap)

\* the position at which the second call's distances differ from the first's
ChangedPosition == CHOOSE i \in 1..Len(distances) : distances[i] # prev_distances[i]

SecondCall == called = "compute_retrieval_similarity" /\ prev_distances # <<>>

\* C3: making one distance strictly smaller never decreases the retrieval
\* similarity: it increases it at positions 1 to 3 and does not change it at a
\* later position.
C3_CloserNeverLower ==
    SecondCall =>
        /\ RLt(distances[ChangedPosition], prev_distances[ChangedPosition])
        /\ RLe(prev_ret, ret)
        /\ ChangedPosition <= 3 => RLt(prev_ret, ret)
        /\ ChangedPosition > 3 => ret = prev_ret

C3_Witness ==
    /\ SecondCall
    /\ Len(distances) = 4
    /\ ChangedPosition = 3
    /\ RLt(prev_ret, ret)

\* 100 / (1 + 0.7 d)
PercentSimilarity(d) == RDiv(Hundred, RAdd(One, RMul(Rat(7, 10), d)))

WeightedSimilarity(ds) ==
    IF Len(ds) = 0 THEN Zero
    ELSE IF Len(ds) = 1 THEN PercentSimilarity(ds[1])
    ELSE IF Len(ds) = 2
         THEN RAdd(RMul(Rat(7, 10), PercentSimilarity(ds[1])),
                   RMul(Rat(3, 10), PercentSimilarity(ds[2])))
    ELSE RAdd(RAdd(RMul(Rat(6, 10), PercentSimilarity(ds[1])),
                   RMul(Rat(3, 10), PercentSimilarity(ds[2]))),
              RMul(Rat(1, 10), PercentSimilarity(ds[3])))

ScenarioDistances == <<Rat(1, 10), Rat(1, 2), Rat(6, 5)>>

\* x, rounded to one decimal, is tenths / 10
RoundsTo(x, tenths) ==
    /\ RLe(Rat(10 * tenths - 5, 100), x)
    /\ RLt(x, Rat(10 * tenths + 5, 100))

SimilarityIsWeightedAverage ==
    called = "compute_retrieval_similarity" =>
        /\ ret = WeightedSimilarity(distances)
        /\ distances # <<>> => RSum(SimWeights(Len(distances))) = One
        /\ distances = <<>> => ret = Zero

C6_ExplanationTiers ==
    called = "compute_grounding_score" =>
        LET x == grounding.overall_score
            low == RLt(x, Rat(50, 1))
            medium == RLe(Rat(50, 1), x) /\ RLt(x, Rat(75, 1))
            high == RLe(Rat(75, 1), x)
        IN  /\ (grounding.explanation = LowText) <=> low
            /\ (grounding.explanation = MediumText) <=> medium
            /\ (grounding.explanation = HighText) <=> high
            /\ Cardinality({t \in {"low", "medium", "high"} :
                   \/ t = "low" /\ low
                   \/ t = "medium" /\ medium
                   \/ t = "high" /\ high}) = 1

\* a result whose overall score is exactly 75
C6_Witness ==
    /\ called = "compute_grounding_score"
    /\ grounding.overall_score = Rat(75, 1)
    /\ grounding.explanation = HighText

\* a result whose overall score is exactly 50
C6_WitnessFifty ==
    /\ called = "compute_grounding_score"
    /\ grounding.overall_score = Rat(50, 1)
    /\ grounding.explanation = MediumText

\* id occurs in text, letter case ignored
OccursIgnoringCase(id, text) ==
    \E i \in 1..Len(text) : \E j \in i..Len(text) :
        /\ j - i < Len(Lower(id))
        /\ Lower(SubSeq(text, i, j)) = Lower(id)

SourceIds(ps) == {ps[i].source : i \in 1..Len(ps)} \ {NoSource}

CitedIds(ans, ps) == {id \in SourceIds(ps) : OccursIgnoringCase(id, ans)}

\* C7: citation coverage is 100 x (distinct source identifiers occurring in the
\* answer, letter case ignored) / (distinct source identifiers), 0 without
\* passages or identifiers; {A.pdf, B.pdf} with only A.pdf cited gives 50.
C7_CitationCoverage ==
    called = "compute_citation_coverage" =>
        /\ SourceIds(docs) = {} => ret = Zero
        /\ SourceIds(docs) # {} =>
              ret = Rat(100 * Cardinality(CitedIds(answer, docs)),
                        Cardinality(SourceIds(docs)))
        /\ RLe(ret, Hundred)
        /\ (SourceIds(docs) = {SourceA, SourceB} /\ CitedIds(answer, docs) = {SourceA})
              => ret = Rat(50, 1)

\* A.pdf retrieved twice, B.pdf once, and only A.pdf cited
C7_Witness ==
    /\ called = "compute_citation_coverage"
    /\ Len(docs) = 3
    /\ SourceIds(docs) = {SourceA, SourceB}
    /\ docs[1].source = SourceA /\ docs[3].source = SourceA
    /\ CitedIds(answer, docs) = {SourceA}
    /\ ret = Rat(50, 1)

RelevantTokens(ans, q) == (Tokens(Lower(ans)) \ stopwords) \ Tokens(Lower(q))

TopSourceTokens(ps) ==
    UNION {Tokens(Lower(ps[i].page_content)) : i \in 1..(IF Len(ps) < 3 THEN Len(ps) ELSE 3)}

\* C8: source overlap is 100 x |R \cap S| / |R|, R the answer's tokens without
\* stopwords and query tokens, S the tokens of the first three passages; 0 when
\* R is empty or there are no passages.
C8_SourceOverlap ==
    called = "compute_source_overlap" =>
        LET R == RelevantTokens(answer, query)
            S == TopSourceTokens(docs)
        IN  /\ (docs = <<>> \/ R = {}) => ret = Zero
            /\ (docs # <<>> /\ R # {}) =>
                  ret = Rat(100 * Cardinality(R \cap S), Cardinality(R))

\* the answer's only word is in the fourth passage and in none of the first three
C8_Witness ==
    /\ called = "compute_source_overlap"
    /\ Len(docs) = 4
    /\ answer = AnswerDelta
    /\ docs[4] = PassageA2
    /\ \A i \in 1..3 : docs[i] # PassageA2
    /\ ret = Zero

\* an answer of query words and stopwords only, over passages
C8_WitnessEcho ==
    /\ called = "compute_source_overlap"
    /\ docs # <<>>
    /\ answer = AnswerEcho /\ query = QueryLasagna
    /\ ret = Zero

\* the marker, in any letter case, lies within the first 50 characters of text
MarkerInFirstFifty(text) ==
    \E i \in 0..((IF Len(text) < 50 THEN Len(text) ELSE 50) - Len(WarningMarker)) :
        Lower(SubSeq(text, i + 1, i + Len(WarningMarker))) = WarningMarker

----------------------------------------------------------------------------
(* Inputs of the reasoning expander *)

QueryRecipe == "What is the recipe for lasagna?"
QueryCompare == "How do BERT and GPT differ?"
UserQueries == {QueryRecipe, QueryCompare}

Keywords == <<"pretraining", "attention", "tokenizer">>
TwoSubQueries == <<"What is BERT?", "What is GPT?">>

DocComplete ==
    JsonDict([core_intent |-> PyStr("compare two language models"),
              reasoning_keywords |-> PyList(Keywords),
              sub_queries |-> PyList(TwoSubQueries),
              expanded_query |-> PyStr("How do BERT and GPT differ in pretraining?"),
              is_multi_hop |-> PyBool(TRUE)])
DocEmptyObject == JsonDict(<<>>)
DocSameQuery ==
    JsonDict([core_intent |-> PyStr("find a recipe"),
              reasoning_keywords |-> PyList(Keywords),
              sub_queries |-> PyList(<<>>),
              expanded_query |-> PyStr(QueryRecipe),
              is_multi_hop |-> PyBool(FALSE)])
DocNoFlag ==
    JsonDict([core_intent |-> PyStr("compare two language models"),
              sub_queries |-> PyList(TwoSubQueries),
              expanded_query |-> PyStr("BERT versus GPT")])
DocHopNoSubs ==
    JsonDict([sub_queries |-> PyList(<<>>), is_multi_hop |-> PyBool(TRUE)])
DocNullLists ==
    JsonDict([reasoning_keywords |-> PyNone, sub_queries |-> PyNone,
              is_multi_hop |-> PyBool(FALSE)])
DocNullSubsNoFlag == JsonDict([sub_queries |-> PyNone])
DocTextSubs == JsonDict([sub_queries |-> PyStr("What is BERT? What is GPT?")])
DocEmptyExpanded == JsonDict([expanded_query |-> PyStr("")])
DocNullExpanded == JsonDict([expanded_query |-> PyNone])
DocNumberExpanded == JsonDict([expanded_query |-> PyInt(0)])
DocHasOriginal ==
    JsonDict([original_query |-> PyStr("another question"),
              expanded_query |-> PyStr("another question")])
DocListOfKeys ==
    JsonOther("list", {"core_intent", "reasoning_keywords", "sub_queries", "expanded_query"})
DocListOfAllKeys ==
    JsonOther("list", {"core_intent", "reasoning_keywords", "sub_queries", "expanded_query",
                       "is_multi_hop"})
DocList == JsonOther("list", {})
DocString == JsonOther("str", {})
DocNumber == JsonOther("int", {})
DocNull == JsonOther("None", {})
DocTrue == JsonOther("bool", {})
DocGarbage == JsonInvalid

DocSet == {DocComplete, DocEmptyObject, DocSameQuery, DocNoFlag, DocHopNoSubs,
           DocNullLists, DocNullSubsNoFlag, DocTextSubs, DocEmptyExpanded,
           DocNullExpanded, DocNumberExpanded, DocHasOriginal, DocListOfKeys,
           DocListOfAllKeys, DocList, DocString, DocNumber, DocNull, DocTrue, DocGarbage}

GroundingIdle ==
    /\ query = <<>> /\ answer = <<>> /\ docs = <<>> /\ distances = <<>>
    /\ called = "idle"
    /\ ret = Zero
    /\ grounding = NoResult
    /\ prev_distances = <<>>
    /\ prev_ret = Zero

InitReasoning ==
    /\ user_query \in UserQueries
    /\ \/ /\ api_key = FALSE
          /\ llm_outcome = [raises |-> "", raw |-> <<>>, doc |-> JsonInvalid]
       \/ /\ api_key = TRUE
          /\ \/ llm_outcome \in {[raises |-> e, raw |-> <<>>, doc |-> JsonInvalid] :
                                   e \in InvokeErrors}
             \/ llm_outcome \in {[raises |-> "", raw |-> r, doc |-> d] :
                                   r \in SeqsUpTo(Atoms, MaxRaw), d \in DocSet}
    /\ rpc = "start"
    /\ raised = ""
    /\ propagated = ""
    /\ reasoning_result = NoDict
    /\ search_query = PyStr("")
    /\ GroundingIdle
    /\ AppIdle
    /\ LogIdle
    /\ IngestIdle

----------------------------------------------------------------------------
(* search_with_context, lines 28-29 *)

ExpandQuery ==
    /\ rpc = "start"
    /\ LET r == expand_query(user_query, api_key, llm_outcome)
       IN  /\ raised' = r.raised
           /\ propagated' = r.propagated
           /\ reasoning_result' = r.result
           /\ rpc' = IF r.propagated = "" THEN "expanded" ELSE "raised"
    /\ UNCHANGED <<user_query, api_key, llm_outcome, search_query>>
    /\ UNCHANGED gvars
    /\ UNCHANGED <<avars, lvars, ivars>>

GetSearchQuery ==
    /\ rpc = "expanded"
    /\ search_query' = get_search_query(reasoning_result)
    /\ rpc' = "selected"
    /\ UNCHANGED <<user_query, api_key, llm_outcome, raised, propagated, reasoning_result>>
    /\ UNCHANGED gvars
    /\ UNCHANGED <<avars, lvars, ivars>>

NextReasoning == ExpandQuery \/ GetSearchQuery

SpecReasoning == InitReasoning /\ [][NextReasoning]_vars

----------------------------------------------------------------------------
(* Properties of the reasoning expander *)

\* the inputs under which the reasoning call cannot succeed
FenceWithoutNewline ==
    LET t == Strip(llm_outcome.raw)
    IN  t # <<>> /\ Head(t) = Fence /\ \A i \in 1..Len(t) : t[i] # Newline

NoJsonObject ==
    \/ \A i \in 1..Len(llm_outcome.raw) : llm_outcome.raw[i] # Document
    \/ ~llm_outcome.doc.valid
    \/ llm_outcome.doc.kind # "dict"

ReasoningCallFails ==
    \/ raised # ""
    \/ ~api_key
    \/ llm_outcome.raises # ""
    \/ FenceWithoutNewline
    \/ NoJsonObject

\* C1: if anything in the reasoning call raises, expand_query does not raise
\* and returns original_query = core_intent = expanded_query = query, empty
\* reasoning_keywords and sub_queries, is_multi_hop false and the failure
\* description under error.
C1_FallbackTotal ==
    (rpc \in {"expanded", "selected", "raised"} /\ ReasoningCallFails) =>
        /\ propagated = ""
        /\ rpc # "raised"
        /\ raised # ""
        /\ DOMAIN reasoning_result =
              {"original_query", "core_intent", "reasoning_keywords", "sub_queries",
               "expanded_query", "is_multi_hop", "error"}
        /\ reasoning_result["original_query"] = PyStr(user_query)
        /\ reasoning_result["core_intent"] = PyStr(user_query)
        /\ reasoning_result["expanded_query"] = PyStr(user_query)
        /\ reasoning_result["reasoning_keywords"] = PyList(<<>>)
        /\ reasoning_result["sub_queries"] = PyList(<<>>)
        /\ reasoning_result["is_multi_hop"] = PyBool(FALSE)
        /\ reasoning_result["error"] = PyStr(raised)

\* the response opens a code fence and has no newline
C1_Witness ==
    /\ rpc = "expanded"
    /\ FenceWithoutNewline
    /\ raised = IndexError
    /\ reasoning_result["error"] = PyStr(IndexError)

\* the response is a JSON list
C1_WitnessNonObject ==
    /\ rpc = "expanded"
    /\ llm_outcome.raw = <<Document>>
    /\ llm_outcome.doc = DocListOfKeys
    /\ raised = AttributeError

\* C10: get_search_query returns expanded_query when it is present (a text,
\* not null), non-empty and different from original_query, and original_query
\* otherwise; after a fallback it is the user's query.
C10_SearchQuery ==
    rpc = "selected" =>
        LET e == reasoning_result["expanded_query"]
            o == reasoning_result["original_query"]
        IN  /\ e.kind \in {"str", "None"} =>
                  search_query = (IF e.kind = "str" /\ e.s # "" /\ e.s # o.s THEN e ELSE o)
            /\ raised # "" => search_query = PyStr(user_query)

\* an expansion that differs from the question
C10_Witness ==
    /\ rpc = "selected"
    /\ raised = ""
    /\ search_query = reasoning_result["expanded_query"]
    /\ search_query # PyStr(user_query)
    /\ search_query.kind = "str"

\* an empty expansion
C10_WitnessEmpty ==
    /\ rpc = "selected"
    /\ raised = ""
    /\ reasoning_result["expanded_query"] = PyStr("")
    /\ search_query = PyStr(user_query)

\* C11: in every result expand_query returns, whatever JSON the model
\* produced, is_multi_hop is true only if sub_queries holds more than one
\* sub-query.
C11_MultiHopOnlyIfSeveral ==
    rpc \in {"expanded", "selected"} =>
        (reasoning_result["is_multi_hop"] = PyBool(TRUE) =>
            LET subs == reasoning_result["sub_queries"]
            IN  subs.kind = "list" /\ Len(subs.items) > 1)

ReasoningResultKeys ==
    {"original_query", "core_intent", "reasoning_keywords", "sub_queries",
     "expanded_query", "is_multi_hop"}

\* C12: every value expand_query returns, on the success path and on the
\* fallback path, has the six fields of a ReasoningResult, original_query is
\* the query passed in, and reasoning_keywords and sub_queries are sequences,
\* never null.
C12_WellFormedResult ==
    rpc \in {"expanded", "selected"} =>
        /\ ReasoningResultKeys \subseteq DOMAIN reasoning_result
        /\ reasoning_result["original_query"] = PyStr(user_query)
        /\ reasoning_result["reasoning_keywords"].kind = "list"
        /\ reasoning_result["sub_queries"].kind = "list"

\* C14 (reasoning component): when GROQ_API_KEY is missing, the call raises
\* the configuration error to its caller and returns no fallback result.
C14_ConfigErrorRaised ==
    (rpc # "start" /\ ~api_key) =>
        /\ rpc = "raised"
        /\ propagated = KeyMissingError
        /\ reasoning_result = NoDict

----------------------------------------------------------------------------
(* Inputs of the handlers *)

MaxRuns == 1          \* handler runs in one behaviour

\* a question, as the text expand_query is given and as the text the scorers read
Question(t, c) == [text |-> t, chars |-> c]

QuestionRecipe ==
    Question("What is the recipe for lasagna?",
             <<"W", "h", "a", "t", " ", "i", "s", " ", "t", "h", "e", " ", "r", "e", "c", "i", "p",
               "e", " ", "f", "o", "r", " ", "l", "a", "s", "a", "g", "n", "a", "?">>)
QuestionAlpha == Question("what is Alpha", QueryAlpha)
QuestionSubject ==
    Question("What is the main subject?",
             <<"W", "h", "a", "t", " ", "i", "s", " ", "t", "h", "e", " ", "m", "a", "i", "n", " ",
               "s", "u", "b", "j", "e", "c", "t", "?">>)
QuestionMethodology ==
    Question("What is the primary methodology used?",
             <<"W", "h", "a", "t", " ", "i", "s", " ", "t", "h", "e", " ", "p", "r", "i", "m", "a",
               "r", "y", " ", "m", "e", "t", "h", "o", "d", "o", "l", "o", "g", "y",
               " ", "u", "s", "e", "d", "?">>)
QuestionResults ==
    Question("What are the results of the experiment?",
             <<"W", "h", "a", "t", " ", "a", "r", "e", " ", "t", "h", "e", " ", "r", "e", "s", "u",
               "l", "t", "s", " ", "o", "f", " ", "t", "h", "e", " ", "e", "x", "p",
               "e", "r", "i", "m", "e", "n", "t", "?">>)

ChatQuestions == {QuestionRecipe, QuestionAlpha}
Topics == {"", "Transformer architecture variants"}

\* benchmark.py, lines 9-28
TEST_DATASET ==
    << [question |-> QuestionMethodology,
        expected_keywords |-> << <<"m", "e", "t", "h", "o", "d", "o", "l", "o", "g", "y">>,
                                 <<"a", "p", "p", "r", "o", "a", "c", "h">>,
                                 <<"p", "r", "o", "p", "o", "s", "e", "d">> >>,
        type |-> "specific"],
       [question |-> QuestionResults,
        expected_keywords |-> << <<"r", "e", "s", "u", "l", "t">>,
                                 <<"a", "c", "c", "u", "r", "a", "c", "y">>,
                                 <<"p", "e", "r", "f", "o", "r", "m", "a", "n", "c", "e">>,
                                 <<"%">> >>,
        type |-> "specific"],
       [question |-> QuestionRecipe,
        expected_keywords |-> <<>>,
        type |-> "irrelevant"] >>

\* app.py, lines 85-89: the two questions of the form, with their defaults
RapidQuestions == <<QuestionSubject, QuestionRecipe>>

\* what the reasoning model does in a get_answer call
DocNumberKeywords == JsonDict([reasoning_keywords |-> PyInt(5)])
AnswerOutcomes ==
    { [raises |-> "Connection error.", raw |-> <<>>, doc |-> JsonInvalid],
      [raises |-> "", raw |-> <<Document>>, doc |-> DocComplete],
      [raises |-> "", raw |-> <<Document>>, doc |-> DocNumberKeywords] }

\* what the vector search returns: passages with their distances, nearest first
Scored(d, x) == [doc |-> d, score |-> x]
SearchResults ==
    { <<>>,
      <<Scored(PassageB, Rat(1, 10)), Scored(PassageA, Rat(6, 5))>>,
      <<Scored(PassageA, Rat(0, 1)), Scored(PassageB, Rat(1, 10)),
        Scored(PassageN, Rat(1, 2)), Scored(PassageA2, Rat(6, 5))>> }

\* what the generation model answers
AnswerWarned == <<"W", "a", "r", "n", "i", "n", "g", ":", " ", "z", "e", "t", "a">>
GeneratedAnswers == {AnswerCitesBoth, AnswerWarned}

\* the log file before the first run: absent, as earlier runs wrote it, or as
\* a write that was interrupted left it (cut inside its second entry)
EarlierEntry ==
    log_entry(QueryAlpha, AnswerPlain, Rat(60, 1), Rat(100, 1), Zero, Zero, Rat(100, 1),
              0, 0)
TornEntry ==
    log_entry(QueryLasagna, AnswerEmpty, Rat(20, 1), Zero, Zero, Zero, Rat(100, 1), 0, 0)
TornLog ==
    LogFile(<<OpenBracket, Half(EarlierEntry, 1), Half(EarlierEntry, 2), Comma,
              Half(TornEntry, 1)>>)
LogsOfEarlierRuns == {NoFile, LogFile(Dumps(<<EarlierEntry>>)), TornLog}

\* part of the text before the first colon: s.split(":")[0]
RECURSIVE BeforeColon(_)
BeforeColon(s) ==
    IF s = <<>> \/ Head(s) = ":" THEN <<>> ELSE <<Head(s)>> \o BeforeColon(Tail(s))

WarningWord == <<"w", "a", "r", "n", "i", "n", "g">>
SubjectKeyword == <<"s", "u", "b", "j", "e", "c", "t">>

\* benchmark.py, lines 51-67 and 90-97.  The faithfulness proxy and the
\* reasoning keywords of a result are left out.
\* as pass_confidence, but with a score of exactly 50 or 60 passing
pass_confidence_inclusive(type, confidence) ==
    IF type = "irrelevant" THEN RLe(confidence, Rat(50, 1)) ELSE RLe(Rat(60, 1), confidence)

\* benchmark.py, lines 51-57
pass_confidence(type, confidence) ==
    IF type = "irrelevant" THEN RLt(confidence, Rat(50, 1)) ELSE RLt(Rat(60, 1), confidence)

BenchmarkResult(case, ans, g) ==
    LET confidence == g.overall_score
    IN  [query |-> case.question.chars,
         confidence |-> confidence,
         pass_confidence |-> pass_confidence(case.type, confidence),
         pass_accuracy |-> IF case.expected_keywords # <<>>
                           THEN \E i \in 1..Len(case.expected_keywords) :
                                   Contains(Lower(ans), Lower(case.expected_keywords[i]))
                           ELSE Contains(Lower(ans), WarningWord)]

\* app.py, lines 100-109: the positive case (i = 1) and the negative case
RapidResult(i, q, ans, g) ==
    [query |-> q,
     confidence |-> g.overall_score,
     pass_confidence |-> IF i = 1 THEN RLt(Rat(60, 1), g.overall_score)
                         ELSE RLt(g.overall_score, Rat(50, 1)),
     pass_accuracy |-> IF i = 1 THEN Contains(Lower(ans), SubjectKeyword)
                       ELSE Contains(BeforeColon(Lower(ans)), WarningWord)]

----------------------------------------------------------------------------
(* The handlers of app.py and benchmark.py, and get_answer *)

lprocs == <<wpc, w_entry, w_before, w_data, w_pending, logged,
            w2pc, w2_entry, w2_data, w2_pending,
            gpc, g_size, g_buf, g_ret, g_start, g_logged, g_overlap>>
uvars == <<uploaded_files, index_before, processed>>
fixed == <<ret, prev_distances, prev_ret, rpc, index_exists, api_key, lprocs, ivars, uvars>>
callstate == <<answer, docs, distances, called, grounding, llm_outcome, raised, propagated,
               reasoning_result, search_query, stages, raw_results, ctx_docs,
               ctx_distances, processed_context, pre_gen_confidence, error>>
runstate == <<log_before, log_calls, searches, asked, test_case, results>>

NoOutcome == [raises |-> "", raw |-> <<>>, doc |-> JsonInvalid]

\* the state of a get_answer call before its first statement
CallReset ==
    /\ answer' = <<>> /\ docs' = <<>> /\ distances' = <<>>
    /\ called' = "idle"
    /\ grounding' = NoResult
    /\ llm_outcome' = NoOutcome
    /\ raised' = "" /\ propagated' = ""
    /\ reasoning_result' = NoDict
    /\ search_query' = PyStr("")
    /\ stages' = <<>>
    /\ raw_results' = <<>>
    /\ ctx_docs' = <<>> /\ ctx_distances' = <<>> /\ processed_context' = <<>>
    /\ pre_gen_confidence' = Zero
    /\ error' = ""

InitHandlers ==
    /\ index_exists \in BOOLEAN
    /\ api_key \in BOOLEAN
    /\ log_file \in LogsOfEarlierRuns
    /\ clock = 1
    /\ LogProcessesIdle
    /\ IngestIdle
    /\ uploaded_files = <<>> /\ index_before = FALSE /\ processed = "none"
    /\ handler = "none" /\ hpc = "idle"
    /\ user_query = "" /\ query = <<>>
    /\ message = NoMessage
    /\ log_before = log_file
    /\ log_calls = 0 /\ searches = 0 /\ asked = 0 /\ test_case = 0 /\ results = <<>>
    /\ answer = <<>> /\ docs = <<>> /\ distances = <<>>
    /\ called = "idle"
    /\ grounding = NoResult
    /\ llm_outcome = NoOutcome
    /\ raised = "" /\ propagated = ""
    /\ reasoning_result = NoDict
    /\ search_query = PyStr("")
    /\ stages = <<>>
    /\ raw_results = <<>>
    /\ ctx_docs = <<>> /\ ctx_distances = <<>> /\ processed_context = <<>>
    /\ pre_gen_confidence = Zero
    /\ error = ""
    /\ ret = Zero /\ prev_distances = <<>> /\ prev_ret = Zero
    /\ rpc = "idle"

\* a handler starts: a chat question (app.py:165), the button of the synthesis
\* mode (app.py:261), the form of the rapid benchmark (app.py:93), or
\* run_benchmark (benchmark.py:30)
Start(h, q, c, first) ==
    /\ hpc \in {"idle", "done"}
    /\ asked < MaxRuns
    /\ handler' = h
    /\ user_query' = q /\ query' = c
    /\ hpc' = first
    /\ message' = NoMessage
    /\ log_before' = log_file
    /\ log_calls' = 0 /\ searches' = 0 /\ test_case' = 0 /\ results' = <<>>
    /\ asked' = asked + 1
    /\ CallReset
    /\ UNCHANGED <<fixed, log_file, clock>>

StartChat == \E q \in ChatQuestions : Start("chat", q.text, q.chars, "load_vector_db")
StartSynthesis == \E t \in Topics : Start("synthesis", t, <<>>, "load_vector_db")
StartRapidBenchmark == Start("rapid_benchmark", "", <<>>, "exists")
StartBenchmark == Start("benchmark", "", <<>>, "load_vector_db")

\* app.py, lines 171-174
ChatLoad ==
    /\ handler = "chat" /\ hpc = "load_vector_db"
    /\ IF ~load_vector_db(index_exists)
       THEN message' = NotReadyChat /\ hpc' = "done"
       ELSE message' = message /\ hpc' = "get_llm"
    /\ UNCHANGED <<fixed, callstate, runstate, handler, user_query, query, log_file, clock>>

\* app.py, lines 262-267
SynthesisLoad ==
    /\ handler = "synthesis" /\ hpc = "load_vector_db"
    /\ IF ~load_vector_db(index_exists)
       THEN message' = NotReadySynthesis /\ hpc' = "done"
       ELSE IF user_query = ""
            THEN message' = EnterTopic /\ hpc' = "done"
            ELSE message' = message /\ hpc' = "get_synthesis_llm"
    /\ UNCHANGED <<fixed, callstate, runstate, handler, user_query, query, log_file, clock>>

\* app.py, lines 94-98
RapidCheck ==
    /\ handler = "rapid_benchmark" /\ hpc = "exists"
    /\ IF ~index_exists
       THEN message' = NotReadyRapid /\ hpc' = "done"
       ELSE message' = message /\ hpc' = "next_case"
    /\ UNCHANGED <<fixed, callstate, runstate, handler, user_query, query, log_file, clock>>

\* benchmark.py, lines 32-38
BenchmarkLoad ==
    /\ handler = "benchmark" /\ hpc = "load_vector_db"
    /\ IF ~load_vector_db(index_exists)
       THEN message' = NotReadyBenchmark /\ hpc' = "done"
       ELSE message' = message /\ hpc' = "next_case"
    /\ UNCHANGED <<fixed, callstate, runstate, handler, user_query, query, log_file, clock>>

Cases == IF handler = "benchmark" THEN [i \in 1..Len(TEST_DATASET) |-> TEST_DATASET[i].question]
         ELSE RapidQuestions

\* benchmark.py, lines 42-48, and app.py, lines 100 and 107: the next question
NextCase ==
    /\ handler \in {"benchmark", "rapid_benchmark"} /\ hpc = "next_case"
    /\ test_case < Len(Cases)
    /\ test_case' = test_case + 1
    /\ user_query' = Cases[test_case + 1].text
    /\ query' = Cases[test_case + 1].chars
    /\ hpc' = "get_llm"
    /\ CallReset
    /\ UNCHANGED <<fixed, handler, message, log_before, log_calls, searches, asked, results,
                   log_file, clock>>

\* ---- get_answer

\* one stage of get_answer has run and raised exc ("" if it returned)
Ran(stage, exc) ==
    /\ stages' = Append(stages, stage)
    /\ error' = exc
    /\ hpc' = get_answer_next(stage, exc)

\* engine.py, line 61
GetLlm ==
    /\ hpc = "get_llm"
    /\ Ran("get_llm", get_llm(api_key))
    /\ UNCHANGED <<fixed, runstate, handler, user_query, query, message, log_file, clock>>
    /\ UNCHANGED <<answer, docs, distances, called, grounding, llm_outcome, raised, propagated,
                   reasoning_result, search_query, raw_results, ctx_docs, ctx_distances,
                   processed_context, pre_gen_confidence>>

\* engine.py, line 28
AnswerExpandQuery ==
    /\ hpc = "expand_query"
    /\ \E o \in AnswerOutcomes :
          LET r == expand_query(user_query, api_key, o)
          IN  /\ llm_outcome' = o
              /\ raised' = r.raised
              /\ propagated' = r.propagated
              /\ reasoning_result' = r.result
              /\ Ran("expand_query", r.propagated)
    /\ UNCHANGED <<fixed, runstate, handler, user_query, query, message, log_file, clock>>
    /\ UNCHANGED <<answer, docs, distances, called, grounding, search_query, raw_results,
                   ctx_docs, ctx_distances, processed_context, pre_gen_confidence>>

\* engine.py, line 29
AnswerGetSearchQuery ==
    /\ hpc = "get_search_query"
    /\ search_query' = get_search_query(reasoning_result)
    /\ Ran("get_search_query", "")
    /\ UNCHANGED <<fixed, runstate, handler, user_query, query, message, log_file, clock>>
    /\ UNCHANGED <<answer, docs, distances, called, grounding, llm_outcome, raised, propagated,
                   reasoning_result, raw_results, ctx_docs, ctx_distances,
                   processed_context, pre_gen_confidence>>

\* engine.py, line 31: the search raises, or returns passages with distances
SimilaritySearch ==
    /\ hpc = "similarity_search"
    /\ searches' = searches + 1
    /\ \/ /\ Ran("similarity_search", SearchError)
          /\ raw_results' = raw_results
       \/ \E found \in SearchResults :
             /\ raw_results' = found
             /\ Ran("similarity_search", "")
    /\ UNCHANGED <<fixed, handler, user_query, query, message, log_file, clock>>
    /\ UNCHANGED <<log_before, log_calls, asked, test_case, results>>
    /\ UNCHANGED <<answer, docs, distances, called, grounding, llm_outcome, raised, propagated,
                   reasoning_result, search_query, ctx_docs, ctx_distances,
                   processed_context, pre_gen_confidence>>

\* engine.py, lines 33-56
BuildContext ==
    /\ hpc = "context"
    /\ ctx_distances' = CollectDistances(raw_results)
    /\ ctx_docs' = CollectDocs(raw_results)
    /\ processed_context' = ProcessedContext(raw_results)
    /\ pre_gen_confidence' = compute_retrieval_similarity(ctx_distances')
    /\ Ran("context", "")
    /\ UNCHANGED <<fixed, runstate, handler, user_query, query, message, log_file, clock>>
    /\ UNCHANGED <<answer, docs, distances, called, grounding, llm_outcome, raised, propagated,
                   reasoning_result, search_query, raw_results>>

\* engine.py, lines 65-69
ReasoningInfo ==
    /\ hpc = "reasoning_info"
    /\ Ran("reasoning_info", ReasoningInfoError(reasoning_result))
    /\ UNCHANGED <<fixed, runstate, handler, user_query, query, message, log_file, clock>>
    /\ UNCHANGED <<answer, docs, distances, called, grounding, llm_outcome, raised, propagated,
                   reasoning_result, search_query, raw_results, ctx_docs, ctx_distances,
                   processed_context, pre_gen_confidence>>

\* engine.py, lines 89-100: the generation raises, or returns the response
Generate ==
    /\ hpc = "generate"
    /\ \/ \E e \in GenerationErrors :
             /\ Ran("generate", e)
             /\ answer' = answer
       \/ \E response \in GeneratedAnswers :
             /\ answer' = response
             /\ Ran("generate", "")
    /\ UNCHANGED <<fixed, runstate, handler, user_query, query, message, log_file, clock>>
    /\ UNCHANGED <<docs, distances, called, grounding, llm_outcome, raised, propagated,
                   reasoning_result, search_query, raw_results, ctx_docs, ctx_distances,
                   processed_context, pre_gen_confidence>>

\* engine.py, lines 103-105
Score ==
    /\ hpc = "compute_grounding_score"
    /\ distances' = ScoredDistances(raw_results)
    /\ docs' = ScoredDocs(raw_results)
    /\ grounding' = compute_grounding_score(query, answer, docs', distances')
    /\ called' = "compute_grounding_score"
    /\ Ran("compute_grounding_score", "")
    /\ UNCHANGED <<fixed, runstate, handler, user_query, query, message, log_file, clock>>
    /\ UNCHANGED <<answer, llm_outcome, raised, propagated, reasoning_result, search_query,
                   raw_results, ctx_docs, ctx_distances, processed_context,
                   pre_gen_confidence>>

\* ---- after get_answer

\* app.py, lines 180-188
ChatLogInteraction ==
    /\ handler = "chat" /\ hpc \in {"returned", "raised"}
    /\ ChatAfterAnswer(error) = "log_interaction"
    /\ log_file' = append_to_log(log_file,
                       log_entry(query, answer, grounding.overall_score,
                                 grounding.retrieval_similarity, grounding.citation_coverage,
                                 grounding.source_overlap, grounding.hallucination_risk,
                                 0, clock))
    /\ clock' = clock + 1
    /\ log_calls' = log_calls + 1
    /\ hpc' = "display"
    /\ UNCHANGED <<fixed, callstate, handler, user_query, query, message>>
    /\ UNCHANGED <<log_before, searches, asked, test_case, results>>

\* app.py, lines 190-250
ChatDisplay ==
    /\ handler = "chat" /\ hpc = "display"
    /\ message' = AnswerShown
    /\ hpc' = "done"
    /\ UNCHANGED <<fixed, callstate, runstate, handler, user_query, query, log_file, clock>>

\* app.py, lines 252-253
ChatExcept ==
    /\ handler = "chat" /\ hpc \in {"returned", "raised"}
    /\ ChatAfterAnswer(error) = "except"
    /\ message' = RetrievalError(error)
    /\ hpc' = "done"
    /\ UNCHANGED <<fixed, callstate, runstate, handler, user_query, query, log_file, clock>>

\* benchmark.py, lines 51-97, and app.py, lines 100-109
RecordResult ==
    /\ handler \in {"benchmark", "rapid_benchmark"} /\ hpc = "returned"
    /\ results' = Append(results,
                         IF handler = "benchmark"
                         THEN BenchmarkResult(TEST_DATASET[test_case], answer, grounding)
                         ELSE RapidResult(test_case, query, answer, grounding))
    /\ hpc' = "next_case"
    /\ UNCHANGED <<fixed, callstate, handler, user_query, query, message, log_file, clock>>
    /\ UNCHANGED <<log_before, log_calls, searches, asked, test_case>>

\* benchmark.py, lines 99-100: the error is printed and the loop goes on
BenchmarkExcept ==
    /\ handler = "benchmark" /\ hpc = "raised"
    /\ message' = Message("  -> Error", error)
    /\ hpc' = "next_case"
    /\ UNCHANGED <<fixed, callstate, runstate, handler, user_query, query, log_file, clock>>

\* benchmark.py, lines 102-112: the rates divide by the number of results
BenchmarkReporting ==
    /\ handler = "benchmark" /\ hpc = "next_case"
    /\ test_case = Len(TEST_DATASET)
    /\ message' = IF results = <<>> THEN UncaughtError(ZeroDivisionError) ELSE BenchmarkReport
    /\ hpc' = "done"
    /\ UNCHANGED <<fixed, callstate, runstate, handler, user_query, query, log_file, clock>>

\* app.py, lines 111-128
RapidReporting ==
    /\ handler = "rapid_benchmark" /\ hpc = "next_case"
    /\ test_case = Len(RapidQuestions)
    /\ message' = EvaluationResults
    /\ hpc' = "done"
    /\ UNCHANGED <<fixed, callstate, runstate, handler, user_query, query, log_file, clock>>

\* app.py, lines 100 and 107: nothing catches an exception of get_answer
RapidRaised ==
    /\ handler = "rapid_benchmark" /\ hpc = "raised"
    /\ message' = UncaughtError(error)
    /\ hpc' = "done"
    /\ UNCHANGED <<fixed, callstate, runstate, handler, user_query, query, log_file, clock>>

\* ---- synthesize_papers, as far as the handler sees it

\* synthesis.py, line 68, under app.py, lines 269-301
SynthesisGetLlm ==
    /\ handler = "synthesis" /\ hpc = "get_synthesis_llm"
    /\ IF ~api_key
       THEN message' = SynthesisFailed("GROQ_API_KEY not found.") /\ hpc' = "done"
       ELSE message' = message /\ hpc' = "synthesis_search"
    /\ UNCHANGED <<fixed, callstate, runstate, handler, user_query, query, log_file, clock>>

\* synthesis.py, line 74
SynthesisSearch ==
    /\ handler = "synthesis" /\ hpc = "synthesis_search"
    /\ searches' = searches + 1
    /\ \/ message' = SynthesisFailed(SearchError) /\ hpc' = "done"
       \/ message' = message /\ hpc' = "synthesis_generate"
    /\ UNCHANGED <<fixed, callstate, handler, user_query, query, log_file, clock>>
    /\ UNCHANGED <<log_before, log_calls, asked, test_case, results>>

\* synthesis.py, lines 93-126: a failed generation is reported in the summary
SynthesisGenerate ==
    /\ handler = "synthesis" /\ hpc = "synthesis_generate"
    /\ \E e \in GenerationErrors \cup {""} : message' = SynthesisComplete(e)
    /\ hpc' = "done"
    /\ UNCHANGED <<fixed, callstate, runstate, handler, user_query, query, log_file, clock>>

NextHandlers ==
    \/ StartChat \/ StartSynthesis \/ StartRapidBenchmark \/ StartBenchmark
    \/ ChatLoad \/ SynthesisLoad \/ RapidCheck \/ BenchmarkLoad \/ NextCase
    \/ GetLlm \/ AnswerExpandQuery \/ AnswerGetSearchQuery \/ SimilaritySearch
    \/ BuildContext \/ ReasoningInfo \/ Generate \/ Score
    \/ ChatLogInteraction \/ ChatDisplay \/ ChatExcept
    \/ RecordResult \/ BenchmarkExcept \/ BenchmarkReporting \/ RapidReporting \/ RapidRaised
    \/ SynthesisGetLlm \/ SynthesisSearch \/ SynthesisGenerate

SpecHandlers == InitHandlers /\ [][NextHandlers]_vars

----------------------------------------------------------------------------
(* Properties of get_answer and of the handlers *)

IsPrefix(s, t) == Len(s) <= Len(t) /\ SubSeq(t, 1, Len(s)) = s

Calls(stage) == Cardinality({i \in 1..Len(stages) : stages[i] = stage})

\* the stages the specification names, in its order
NamedStages ==
    <<"expand_query", "similarity_search", "context", "generate", "compute_grounding_score">>

RECURSIVE Named(_)
Named(s) ==
    IF s = <<>> THEN <<>>
    ELSE IF \E i \in 1..Len(NamedStages) : NamedStages[i] = Head(s)
         THEN <<Head(s)>> \o Named(Tail(s))
         ELSE Named(Tail(s))

\* C13: within one get_answer call the stages run in the order reasoning
\* expansion, similarity search, context assembly, generation, grounding
\* scoring; compute_grounding_score is called once, after the generation has
\* returned, with the passages and distances of the search result that built
\* the prompt context and the pre-generation confidence, in the same order, so
\* the pre-generation confidence is the retrieval_similarity of the result.
C13_StagesInOrder ==
    /\ IsPrefix(Named(stages), NamedStages)
    /\ Calls("compute_grounding_score") <= 1
    /\ hpc = "returned" => Named(stages) = NamedStages
    /\ Calls("compute_grounding_score") = 1 =>
          /\ Calls("generate") = 1
          /\ answer \in GeneratedAnswers
          /\ Len(docs) = Len(raw_results) /\ Len(distances) = Len(raw_results)
          /\ \A i \in 1..Len(raw_results) :
                /\ docs[i] = raw_results[i].doc
                /\ distances[i] = raw_results[i].score
          /\ docs = ctx_docs
          /\ distances = ctx_distances
          /\ processed_context = [i \in 1..Len(docs) |-> ContextBlock(docs[i])]
          /\ pre_gen_confidence = grounding.retrieval_similarity
          /\ grounding = compute_grounding_score(query, answer, ctx_docs, ctx_distances)

\* a call that returned, on four passages at different distances
C13_Witness ==
    /\ hpc = "returned"
    /\ stages = GetAnswerStages
    /\ Len(raw_results) = 4
    /\ distances[1] # distances[2]
    /\ pre_gen_confidence = grounding.retrieval_similarity
    /\ RLt(Zero, pre_gen_confidence)

GenerationRaised ==
    /\ stages # <<>>
    /\ stages[Len(stages)] = "generate"
    /\ error # ""

\* C15: get_answer invokes the generation at most once per query; when that
\* call raises, the exception reaches the caller of get_answer, nothing is
\* retried and no GroundingResult is computed or returned.
C15_SingleAttempt ==
    /\ Calls("generate") <= 1
    /\ GenerationRaised =>
          /\ hpc \in {"raised", "done", "next_case"}
          /\ error \in GenerationErrors
          /\ Calls("compute_grounding_score") = 0
          /\ called = "idle"
          /\ grounding = NoResult
          /\ (handler = "chat" /\ hpc = "done") => message = RetrievalError(error)
          /\ (handler = "rapid_benchmark" /\ hpc = "done") => message = UncaughtError(error)

\* the generation raised in a chat query, and the handler reported it
C15_Witness ==
    /\ GenerationRaised
    /\ handler = "chat"
    /\ hpc = "done"
    /\ message = RetrievalError("Rate limit reached")
    /\ raw_results # <<>>

NotReady(h) ==
    CASE h = "chat" -> NotReadyChat
      [] h = "synthesis" -> NotReadySynthesis
      [] h = "rapid_benchmark" -> NotReadyRapid
      [] OTHER -> NotReadyBenchmark

OtherMessages ==
    {NoMessage, AnswerShown, EnterTopic, EvaluationResults, BenchmarkReport}
       \cup {RetrievalError(e) : e \in GenerationErrors \cup {SearchError, ValueErrorNoKey, TypeError}}
       \cup {SynthesisComplete(e) : e \in GenerationErrors \cup {""}}

C16_WitnessBenchmark ==
    /\ ~index_exists
    /\ handler = "benchmark"
    /\ hpc = "done"
    /\ message = NotReadyBenchmark

EntryFields == {"timestamp", "query", "answer_length", "grounding_score", "metrics"}
MetricFields ==
    {"retrieval_similarity", "citation_coverage", "source_overlap", "hallucination_risk"}

\* the entry of the query that the handler is answering
EntryOfThisQuery(e) ==
    /\ e.query = query
    /\ e.answer_length = Len(answer)
    /\ e.grounding_score = grounding.overall_score
    /\ e.metrics = [retrieval_similarity |-> grounding.retrieval_similarity,
                    citation_coverage |-> grounding.citation_coverage,
                    source_overlap |-> grounding.source_overlap,
                    hallucination_risk |-> grounding.hallucination_risk]

\* C17: in the chat flow an interaction is logged only after get_answer has
\* returned the answer and its GroundingResult; a query that raised leaves the
\* log unchanged, a completed query adds exactly one entry, and every entry
\* in the log carries timestamp, query, answer_length, grounding_score and the
\* four sub-scores under metrics.
C17_LoggedAfterAnswer ==
    /\ handler = "chat" =>
          /\ log_calls <= 1
          /\ log_calls = 0 => log_file = log_before
          /\ log_calls = 1 =>
                /\ hpc \in {"display", "done"}
                /\ error = ""
                /\ stages = GetAnswerStages
                /\ called = "compute_grounding_score"
                /\ Len(get_logs(log_file)) = Len(get_logs(log_before)) + 1
                /\ SubSeq(get_logs(log_file), 1, Len(get_logs(log_before)))
                      = get_logs(log_before)
                /\ EntryOfThisQuery(get_logs(log_file)[Len(get_logs(log_file))])
          /\ (hpc = "done" /\ error # "") => log_calls = 0
          /\ (hpc = "done" /\ message = AnswerShown) => log_calls = 1
    /\ log_calls = 1 => LoadLog(log_file.text).ok
    /\ \A i \in 1..Len(get_logs(log_file)) :
          /\ DOMAIN get_logs(log_file)[i] = EntryFields
          /\ DOMAIN get_logs(log_file)[i].metrics = MetricFields

\* a completed query, logged after an earlier entry
C17_Witness ==
    /\ handler = "chat"
    /\ hpc = "done"
    /\ message = AnswerShown
    /\ Len(get_logs(log_before)) = 1
    /\ Len(get_logs(log_file)) = 2

\* a query whose retrieval raised
C17_WitnessFailed ==
    /\ handler = "chat"
    /\ hpc = "done"
    /\ error = SearchError
    /\ log_file = log_before

(***************************************************************************)
(* The interaction log under concurrent use: one caller of log_interaction *)
(* and one caller of get_logs on the same eval_logs.json, each advancing   *)
(* one file operation at a time.                                           *)
(***************************************************************************)

MaxCalls == 2         \* log_interaction calls in one behaviour

\* the arguments of the log_interaction calls; the entries of two calls differ
\* in their timestamps
LoggedInteraction ==
    [query |-> QueryLasagna, answer |-> AnswerPlain, grounding_score |-> Rat(75, 1),
     retrieval_sim |-> Rat(90, 1), citation_cov |-> Rat(100, 1),
     source_ov |-> Rat(50, 1), risk |-> Zero]

\* what eval_logs.json can hold when the two callers start: nothing, an empty
\* file, an empty list, the list of an earlier run, or the text of a write of an
\* earlier run that was cut short
LogsAtStart ==
    {NoFile, LogFile(<<>>), LogFile(Dumps(<<>>)), LogFile(Dumps(<<EarlierEntry>>)), TornLog}

writervars == <<wpc, w_entry, w_before, w_data, w_pending, logged>>
secondvars == <<w2pc, w2_entry, w2_data, w2_pending>>
readervars == <<gpc, g_size, g_buf, g_ret, g_start, g_logged>>

InitLog ==
    /\ GroundingIdle
    /\ ReasoningIdle
    /\ AppIdle
    /\ log_file \in LogsAtStart
    /\ clock = 1
    /\ LogProcessesIdle
    /\ IngestIdle

\* log_interaction, lines 26-38: the entry is built and _append_to_log is entered
LogInteractionCall ==
    /\ wpc = "idle"
    /\ Len(logged) < MaxCalls
    /\ LET a == LoggedInteraction
       IN  w_entry' = log_entry(a.query, a.answer, a.grounding_score, a.retrieval_sim,
                                a.citation_cov, a.source_ov, a.risk, 0, clock)
    /\ clock' = clock + 1
    /\ w_before' = log_file
    /\ wpc' = "read"
    /\ g_overlap' = IF gpc \in {"idle", "returned"} THEN g_overlap ELSE g_overlap + 1
    /\ UNCHANGED <<readervars, w_data, w_pending, logged, log_file, gvars, rvars, avars, ivars, secondvars>>

\* _append_to_log, lines 42-52: data is read from the file and the entry appended
AppendRead ==
    /\ wpc = "read"
    /\ w_data' = Append(ReadData(log_file), w_entry)
    /\ wpc' = "open"
    /\ UNCHANGED <<w_entry, w_before, w_pending, logged, readervars, g_overlap, log_file,
                   clock, gvars, rvars, avars, ivars, secondvars>>

\* _append_to_log, line 54: open(log_file, "w") creates or empties the file;
\* line 55: json.dump hands the text to the file object
AppendOpen ==
    /\ wpc = "open"
    /\ log_file' = LogFile(<<>>)
    /\ w_pending' = Dumps(w_data)
    /\ wpc' = "dump"
    /\ UNCHANGED <<w_entry, w_before, w_data, logged, readervars, g_overlap, clock, gvars, rvars,
                   avars, ivars, secondvars>>

\* a write of a piece of text at the offset of the writing file object; a gap
\* before the offset reads as NUL
WriteAt(text, offset, piece) ==
    [k \in 1..(IF Len(text) > offset + Len(piece) THEN Len(text) ELSE offset + Len(piece)) |->
        IF k > offset /\ k <= offset + Len(piece) THEN piece[k - offset]
        ELSE IF k <= Len(text) THEN text[k]
        ELSE Punct("NUL")]

\* _append_to_log, line 55: the file object writes out some of the text
AppendFlush ==
    /\ wpc = "dump"
    /\ w_pending # <<>>
    /\ \E k \in 1..Len(w_pending) :
          /\ log_file' = LogFile(WriteAt(log_file.text,
                                          Len(Dumps(w_data)) - Len(w_pending),
                                          SubSeq(w_pending, 1, k)))
          /\ w_pending' = SubSeq(w_pending, k + 1, Len(w_pending))
    /\ UNCHANGED <<wpc, w_entry, w_before, w_data, logged, readervars, g_overlap, clock,
                   gvars, rvars, avars, ivars, secondvars>>

\* _append_to_log, line 55: the with block closes the file; log_interaction returns
AppendClose ==
    /\ wpc = "dump"
    /\ w_pending = <<>>
    /\ wpc' = "idle"
    /\ logged' = Append(logged, w_entry)
    /\ UNCHANGED <<w_entry, w_before, w_data, w_pending, readervars, g_overlap, log_file,
                   clock, gvars, rvars, avars, ivars, secondvars>>

\* get_logs is called
GetLogsCall ==
    /\ gpc \in {"idle", "returned"}
    /\ gpc' = "exists"
    /\ g_start' = log_file
    /\ g_logged' = logged
    /\ g_overlap' = IF wpc = "idle" THEN 0 ELSE 1
    /\ g_buf' = <<>>
    /\ g_size' = 0
    /\ g_ret' = <<>>
    /\ UNCHANGED <<writervars, log_file, clock, gvars, rvars, avars, ivars, secondvars>>

\* get_logs, lines 59 and 64
GetLogsExists ==
    /\ gpc = "exists"
    /\ gpc' = IF log_file.exists THEN "open" ELSE "returned"
    /\ UNCHANGED <<g_size, g_buf, g_ret, g_start, g_logged, g_overlap, writervars, log_file, clock,
                   gvars, rvars, avars, ivars, secondvars>>

\* get_logs, lines 60-61: the file is opened; json.load sizes its first read by
\* the size the file has now.  A file removed since line 59 makes open raise,
\* which is not caught; nothing here removes the file
GetLogsOpen ==
    /\ gpc = "open"
    /\ g_size' = Len(log_file.text)
    /\ gpc' = "read"
    /\ UNCHANGED <<g_buf, g_ret, g_start, g_logged, g_overlap, writervars, log_file, clock, gvars, rvars,
                   avars, ivars, secondvars>>

\* what one read of the file returns at the reader's offset
ReadChunk(text, offset, size) ==
    LET available == IF Len(text) > offset THEN Len(text) - offset ELSE 0
        n == IF offset = 0 /\ available > size + 1 THEN size + 1 ELSE available
    IN  SubSeq(text, offset + 1, offset + n)

\* get_logs, line 61: json.load reads on until a read returns nothing
GetLogsRead ==
    /\ gpc = "read"
    /\ ReadChunk(log_file.text, Len(g_buf), g_size) # <<>>
    /\ g_buf' = g_buf \o ReadChunk(log_file.text, Len(g_buf), g_size)
    /\ UNCHANGED <<gpc, g_size, g_ret, g_start, g_logged, g_overlap, writervars, log_file, clock,
                   gvars, rvars, avars, ivars, secondvars>>

\* get_logs, lines 61-63: the text read is parsed and the result returned
GetLogsReturn ==
    /\ gpc = "read"
    /\ ReadChunk(log_file.text, Len(g_buf), g_size) = <<>>
    /\ g_ret' = LoadedLogs(g_buf)
    /\ gpc' = "returned"
    /\ UNCHANGED <<g_size, g_buf, g_start, g_logged, g_overlap, writervars, log_file, clock, gvars, rvars,
                   avars, ivars, secondvars>>

NextLog ==
    \/ LogInteractionCall
    \/ AppendRead
    \/ AppendOpen
    \/ AppendFlush
    \/ AppendClose
    \/ GetLogsCall
    \/ GetLogsExists
    \/ GetLogsOpen
    \/ GetLogsRead
    \/ GetLogsReturn

SpecLog == InitLog /\ [][NextLog]_vars

----------------------------------------------------------------------------
(* Properties of the interaction log *)

\* the last n elements of a sequence
LastOf(s, n) == SubSeq(s, Len(s) - n + 1, Len(s))

\* C18: whatever the log file held before the call, a log_interaction call that
\* has returned left every entry that was in the file in place and added its
\* own entry after them, and get_logs then returns the entries of the calls so
\* far in call order.
C18_AppendOnly ==
    (wpc = "idle" /\ logged # <<>>) =>
        /\ CompleteEntries(log_file.text) = CompleteEntries(w_before.text) \o <<w_entry>>
        /\ Len(get_logs(log_file)) >= Len(logged)
        /\ LastOf(get_logs(log_file), Len(logged)) = logged

\* the entries that were ever handed to the log
KnownEntries == {EarlierEntry, w_entry} \cup {logged[i] : i \in 1..Len(logged)}

\* when get_logs returns, the write it ran alongside is the writer's current or
\* last one
ContentsBefore == get_logs(w_before)
ContentsAfter == get_logs(append_to_log(w_before, w_entry))

\* what C19 says of the value a get_logs call returns
WholeEntriesReturned(returned) ==
    /\ \A i \in 1..Len(returned) : returned[i] \in KnownEntries \ {NoEntry}
    /\ g_overlap = 1 => returned \in {<<>>, ContentsBefore, ContentsAfter}
    /\ g_overlap = 0 => returned = get_logs(g_start)
    /\ (g_overlap = 0 /\ g_logged # <<>>) =>
           /\ returned # <<>>
           /\ returned[Len(returned)] = g_logged[Len(g_logged)]

C19_WitnessAfter ==
    /\ gpc = "returned"
    /\ g_overlap = 0
    /\ Len(g_logged) = 2
    /\ Len(g_ret) = 3
    /\ g_ret[3] = g_logged[2]

----------------------------------------------------------------------------
(* Inputs of the extractor *)

MaxChunks == 2        \* chunks handed to extract_semantic_sections

\* what the chunks say; the filler brings them to the lengths around ShortChunk
ChunkTexts ==
    {<<"A", "b", "s", "t", "r", "a", "c", "t">>,
     <<"T", "a", "b", "l", "e", " ", "o", "f", " ", "d", "a", "t", "a">>,
     <<"R", "e", "f", "e", "r", "e", "n", "c", "e", "s">>}

ChunkLengths == {ShortChunk - 1, ShortChunk}

Filled(t, n) == IF Len(t) >= n THEN t ELSE t \o Pad(n - Len(t))

ChunkContents == {Filled(t, n) : t \in ChunkTexts, n \in ChunkLengths}

TitleText == "Attention Is All You Need"

DocTagged == JsonDict([section_type |-> PyStr(<<"M", "e", "t", "h", "o", "d", "o", "l", "o", "g", "y">>), paper_title |-> PyStr("null")])
DocTaggedOther == JsonDict([section_type |-> PyStr(Other), paper_title |-> PyStr(TitleText)])
DocTaggedEmpty == JsonDict([section_type |-> PyStr(<<>>), paper_title |-> PyNone])
DocUntagged == JsonDict([paper_title |-> PyStr(TitleText)])
DocTaggedNull == JsonDict([section_type |-> PyNone])

\* what a classification call can do
TagOutcomes ==
    {[raises |-> "Connection error.", raw |-> <<>>, doc |-> JsonInvalid],
     [raises |-> "", raw |-> <<Fence>>, doc |-> DocTagged],
     [raises |-> "", raw |-> <<Document>>, doc |-> DocGarbage],
     [raises |-> "", raw |-> <<Document>>, doc |-> DocList],
     [raises |-> "", raw |-> <<Document>>, doc |-> DocTaggedNull],
     [raises |-> "", raw |-> <<Document>>, doc |-> DocTagged],
     [raises |-> "", raw |-> <<Fence, Prose, Newline, Document, Newline, Fence>>,
      doc |-> DocTaggedOther],
     [raises |-> "", raw |-> <<Document>>, doc |-> DocTaggedEmpty],
     [raises |-> "", raw |-> <<Document>>, doc |-> DocUntagged]}

NoTagOutcome == [raises |-> "", raw |-> <<>>, doc |-> JsonInvalid]

----------------------------------------------------------------------------
(* extract_semantic_sections, one round of its loop at a time *)

InitIngest ==
    /\ GroundingIdle
    /\ user_query = ""
    /\ api_key \in BOOLEAN
    /\ llm_outcome = [raises |-> "", raw |-> <<>>, doc |-> JsonInvalid]
    /\ rpc = "idle"
    /\ raised = "" /\ propagated = ""
    /\ reasoning_result = NoDict
    /\ search_query = PyStr("")
    /\ AppIdle
    /\ LogIdle
    /\ epc = "start"
    /\ chunks \in SeqsUpTo(ChunkContents, MaxChunks)
    /\ chain = FALSE
    /\ chunk_index = 0
    /\ enriched_docs = <<>>
    /\ invoked = <<>>
    /\ responses = <<>>

outside_ingest == <<gvars, rvars, avars, lvars>>

\* lines 57-81: the model and the chain are set up (building the chain is not
\* taken to fail)
ExtractStart ==
    /\ epc = "start"
    /\ chain' = get_tagging_llm(api_key)
    /\ epc' = "loop"
    /\ UNCHANGED <<chunks, chunk_index, enriched_docs, invoked, responses, outside_ingest>>

\* lines 92-93 with 118-131: a chunk for which no classification call is made,
\* because it is short or because there is no chain
EnrichWithoutCall ==
    /\ epc = "loop"
    /\ chunk_index < Len(chunks)
    /\ ~NeedsCall(chunks[chunk_index + 1], chain)
    /\ enriched_docs' = Append(enriched_docs,
                               Enriched(chunks[chunk_index + 1], chain, NoTagOutcome))
    /\ chunk_index' = chunk_index + 1
    /\ UNCHANGED <<epc, chunks, chain, invoked, responses, outside_ingest>>

\* lines 94-131: a chunk for which the classification call is made.  The pause
\* of lines 97-98 changes nothing
EnrichWithCall ==
    /\ epc = "loop"
    /\ chunk_index < Len(chunks)
    /\ NeedsCall(chunks[chunk_index + 1], chain)
    /\ invoked' = Append(invoked, [chunk |-> chunk_index,
                                   text_chunk |-> Slice(chunks[chunk_index + 1], InvokeLimit)])
    /\ \E outcome \in TagOutcomes :
          /\ responses' = Append(responses, outcome)
          /\ IF Propagated(chunks[chunk_index + 1], chain, outcome) = ""
             THEN /\ enriched_docs' = Append(enriched_docs,
                                             Enriched(chunks[chunk_index + 1], chain, outcome))
                  /\ chunk_index' = chunk_index + 1
                  /\ epc' = epc
             ELSE /\ epc' = "raised"
                  /\ UNCHANGED <<enriched_docs, chunk_index>>
    /\ UNCHANGED <<chunks, chain, outside_ingest>>

\* line 133
ExtractReturn ==
    /\ epc = "loop"
    /\ chunk_index = Len(chunks)
    /\ epc' = "returned"
    /\ UNCHANGED <<chunks, chain, chunk_index, enriched_docs, invoked, responses,
                   outside_ingest>>

NextIngest ==
    \/ ExtractStart
    \/ EnrichWithoutCall
    \/ EnrichWithCall
    \/ ExtractReturn

SpecIngest == InitIngest /\ [][NextIngest]_vars

----------------------------------------------------------------------------
(* Properties of the extractor *)

\* the chunks enriched so far that are shorter than ShortChunk
ShortEnriched == {k \in 1..Len(enriched_docs) : Len(chunks[k]) < ShortChunk}

\* chain.invoke was called for chunk k
InvokedFor(k) == \E c \in 1..Len(invoked) : invoked[c].chunk = k - 1

\* C20 as stated: a chunk shorter than 200 characters is tagged "other" and no
\* classification call is made for it, whatever words it contains.
C20_ShortTaggedOther ==
    \A k \in ShortEnriched :
        /\ enriched_docs[k].metadata.section_type = Other
        /\ ~InvokedFor(k)

\* the patterns of fallback_map that match a text
Matching(content) ==
    {m \in 1..Len(fallback_map) : Search(fallback_map[m].pattern, content)}

\* C20: no classification call is made for a chunk shorter than 200 characters,
\* whatever words it contains; its section type is that of the first pattern of
\* the fallback map that matches its text, "other" when none matches, and it
\* gets no paper title.
C20_ShortChunkNoCall ==
    \A k \in ShortEnriched :
        /\ ~InvokedFor(k)
        /\ enriched_docs[k].page_content = chunks[k]
        /\ DOMAIN enriched_docs[k].metadata = {"section_type"}
        /\ enriched_docs[k].metadata.section_type =
              IF Matching(chunks[k]) = {} THEN Other
              ELSE fallback_map[CHOOSE m \in Matching(chunks[k]) :
                                   \A n \in Matching(chunks[k]) : m <= n].stype

\* with the chain built, a chunk one character short of the limit was tagged by
\* its words without a call, and the call was made for a chunk at the limit
C20_Witness ==
    /\ chain
    /\ Len(enriched_docs) = 2
    /\ Len(chunks[1]) = ShortChunk - 1
    /\ enriched_docs[1].metadata.section_type = Objective
    /\ Len(chunks[2]) = ShortChunk
    /\ invoked = <<[chunk |-> 1, text_chunk |-> chunks[2]]>>

\* the classification call raised, or returned text that is not JSON
CallFailed(outcome) == outcome.raises # "" \/ ~outcome.doc.valid

\* the section type of the first pattern, in the order of fallback_map, that
\* matches a text; "other" when none does
TypeByWords(content) ==
    LET matching == Matching(content)
    IN  IF matching = {} THEN Other
        ELSE fallback_map[CHOOSE m \in matching : \A n \in matching : m <= n].stype

\* C21: no exception leaves extract_semantic_sections when a classification
\* call raises or returns malformed JSON; the chunk of such a call gets the
\* section type of the first matching pattern (objective, methodology, results,
\* claims, limitations), "other" when none matches, and no title; the chunks
\* enriched are the chunks given, in their order, and all of them once the
\* function has returned.
C21_FailureFallsBack ==
    /\ epc # "raised"
    /\ Len(enriched_docs) = chunk_index
    /\ \A k \in 1..Len(enriched_docs) : enriched_docs[k].page_content = chunks[k]
    /\ epc = "returned" => Len(enriched_docs) = Len(chunks)
    /\ Len(responses) = Len(invoked)
    /\ \A c \in 1..Len(responses) :
          CallFailed(responses[c]) =>
              enriched_docs[invoked[c].chunk + 1].metadata =
                  [section_type |-> TypeByWords(chunks[invoked[c].chunk + 1])]

\* the call for the first chunk raised and the call for the second one returned
\* malformed JSON; both chunks were tagged by their words and the function
\* returned
C21_Witness ==
    /\ epc = "returned"
    /\ Len(chunks) = 2
    /\ Len(responses) = 2
    /\ responses[1].raises # ""
    /\ responses[2].raises = "" /\ ~responses[2].doc.valid
    /\ enriched_docs[1].metadata.section_type = Methodology
    /\ enriched_docs[2].metadata.section_type = Other

----------------------------------------------------------------------------
(* The checks of a benchmark result, applied to scores around the thresholds: *)
(* get_answer has returned for one test case and the result is recorded      *)

\* overall scores get_answer may have returned, in hundredths
ConfidenceScores ==
    {Rat(k, 100) : k \in (4990..5010) \cup (5990..6010) \cup {0, 5500, 10000}}

InitConfidence ==
    /\ index_exists = TRUE
    /\ api_key = TRUE
    /\ log_file = NoFile
    /\ clock = 1
    /\ LogProcessesIdle
    /\ IngestIdle
    /\ uploaded_files = <<>> /\ index_before = FALSE /\ processed = "none"
    /\ handler \in {"benchmark", "rapid_benchmark"}
    /\ hpc = "returned"
    /\ test_case \in 1..Len(Cases)
    /\ user_query = Cases[test_case].text
    /\ query = Cases[test_case].chars
    /\ message = NoMessage
    /\ log_before = NoFile
    /\ log_calls = 0 /\ searches = 1 /\ asked = 1 /\ results = <<>>
    /\ answer \in GeneratedAnswers
    /\ docs = <<>> /\ distances = <<>>
    /\ called = "idle"
    /\ grounding \in {[NoResult EXCEPT !.overall_score = c] : c \in ConfidenceScores}
    /\ llm_outcome = NoOutcome
    /\ raised = "" /\ propagated = ""
    /\ reasoning_result = NoDict
    /\ search_query = PyStr("")
    /\ stages = GetAnswerStages
    /\ raw_results = <<>>
    /\ ctx_docs = <<>> /\ ctx_distances = <<>> /\ processed_context = <<>>
    /\ pre_gen_confidence = Zero
    /\ error = ""
    /\ ret = Zero /\ prev_distances = <<>> /\ prev_ret = Zero
    /\ rpc = "idle"

NextConfidence == RecordResult

SpecConfidence == InitConfidence /\ [][NextConfidence]_vars

\* the type of the test case a result belongs to: the types of the golden
\* dataset, and in the rapid benchmark the negative question counts as
\* irrelevant
TypeOfCase ==
    IF handler = "benchmark" THEN TEST_DATASET[test_case].type
    ELSE IF test_case = 2 THEN "irrelevant" ELSE "specific"

Fifty == Rat(50, 1)
Sixty == Rat(60, 1)

\* C22: a recorded result passes the confidence check exactly when its test case
\* is of type "irrelevant" and the overall score is strictly below 50, or of
\* another type and the score strictly above 60; a score from 50 to 60
\* inclusive fails for both.
C22_ConfidenceCheck ==
    \A i \in 1..Len(results) :
        LET c == results[i].confidence
        IN  /\ c = grounding.overall_score
            /\ results[i].pass_confidence <=>
                  \/ TypeOfCase = "irrelevant" /\ RLt(c, Fifty)
                  \/ TypeOfCase # "irrelevant" /\ RLt(Sixty, c)
            /\ (RLe(Fifty, c) /\ RLe(c, Sixty)) => ~results[i].pass_confidence

\* a golden query of type specific scored exactly 60 and failed the check
C22_Witness ==
    /\ handler = "benchmark"
    /\ Len(results) = 1
    /\ TEST_DATASET[test_case].type = "specific"
    /\ results[1].confidence = Sixty
    /\ ~results[1].pass_confidence

\* the irrelevant golden query scored just below 50 and passed
C22_WitnessIrrelevant ==
    /\ handler = "benchmark"
    /\ Len(results) = 1
    /\ TEST_DATASET[test_case].type = "irrelevant"
    /\ results[1].confidence = Rat(4999, 100)
    /\ results[1].pass_confidence

----------------------------------------------------------------------------
(* Two sessions logging to the same eval_logs.json: the calls of the first  *)
(* session as above, and one call of a second session, each advancing one   *)
(* file operation at a time.                                                *)

\* the arguments of the call of the second session
OtherInteraction ==
    [query |-> QueryAlpha, answer |-> AnswerEmpty, grounding_score |-> Rat(20, 1),
     retrieval_sim |-> Zero, citation_cov |-> Zero, source_ov |-> Zero,
     risk |-> Rat(100, 1)]

firstvars == <<writervars, readervars, g_overlap>>

\* log_interaction of the second session, lines 26-38
OtherLogInteractionCall ==
    /\ w2pc = "idle"
    /\ LET a == OtherInteraction
       IN  w2_entry' = log_entry(a.query, a.answer, a.grounding_score, a.retrieval_sim,
                                 a.citation_cov, a.source_ov, a.risk, 0, clock)
    /\ clock' = clock + 1
    /\ w2pc' = "read"
    /\ UNCHANGED <<w2_data, w2_pending, firstvars, log_file, gvars, rvars, avars, ivars>>

\* _append_to_log of the second session, lines 42-52
OtherAppendRead ==
    /\ w2pc = "read"
    /\ w2_data' = Append(ReadData(log_file), w2_entry)
    /\ w2pc' = "open"
    /\ UNCHANGED <<w2_entry, w2_pending, firstvars, log_file, clock, gvars, rvars, avars,
                   ivars>>

\* _append_to_log of the second session, lines 54-55: the file is emptied
OtherAppendOpen ==
    /\ w2pc = "open"
    /\ log_file' = LogFile(<<>>)
    /\ w2_pending' = Dumps(w2_data)
    /\ w2pc' = "dump"
    /\ UNCHANGED <<w2_entry, w2_data, firstvars, clock, gvars, rvars, avars, ivars>>

\* _append_to_log of the second session, line 55: some of the text is written
OtherAppendFlush ==
    /\ w2pc = "dump"
    /\ w2_pending # <<>>
    /\ \E k \in 1..Len(w2_pending) :
          /\ log_file' = LogFile(WriteAt(log_file.text,
                                          Len(Dumps(w2_data)) - Len(w2_pending),
                                          SubSeq(w2_pending, 1, k)))
          /\ w2_pending' = SubSeq(w2_pending, k + 1, Len(w2_pending))
    /\ UNCHANGED <<w2pc, w2_entry, w2_data, firstvars, clock, gvars, rvars, avars, ivars>>

\* _append_to_log of the second session, line 55: the file is closed and the
\* call returns
OtherAppendClose ==
    /\ w2pc = "dump"
    /\ w2_pending = <<>>
    /\ w2pc' = "returned"
    /\ UNCHANGED <<w2_entry, w2_data, w2_pending, firstvars, log_file, clock, gvars, rvars,
                   avars, ivars>>

NextSessions ==
    \/ LogInteractionCall
    \/ AppendRead
    \/ AppendOpen
    \/ AppendFlush
    \/ AppendClose
    \/ OtherLogInteractionCall
    \/ OtherAppendRead
    \/ OtherAppendOpen
    \/ OtherAppendFlush
    \/ OtherAppendClose

SpecSessions == InitLog /\ [][NextSessions]_vars

\* s holds the elements of t, in the order of t
RECURSIVE HoldsInOrder(_, _)
HoldsInOrder(s, t) ==
    IF t = <<>> THEN TRUE
    ELSE IF s = <<>> THEN FALSE
    ELSE IF Head(s) = Head(t) THEN HoldsInOrder(Tail(s), Tail(t))
    ELSE HoldsInOrder(Tail(s), t)

\* C23: once a call of the first session and the call of the second session
\* that ran alongside it have both finished, the log holds both new entries and
\* every entry that was in it before the first of them started.
C23_NoLostUpdate ==
    (Len(logged) = 1 /\ wpc = "idle" /\ w2pc = "returned") =>
        LET now == get_logs(log_file)
        IN  /\ \E k \in 1..Len(now) : now[k] = w_entry
            /\ \E k \in 1..Len(now) : now[k] = w2_entry
            /\ HoldsInOrder(now, get_logs(w_before))

----------------------------------------------------------------------------
(* The "Process PDFs" button of app.py, with load_and_process_pdfs and       *)
(* create_vector_db of ingest.py, followed by a chat question.               *)

\* the files a user can upload: a paper of one page, a scan whose page has no
\* text, and a file that PyMuPDF cannot open
PaperLong == [name |-> "paper.pdf", load |-> "", pages |-> <<Filled(<<"A", "b", "s", "t", "r", "a", "c", "t">>, ShortChunk)>>]
PaperShort == [name |-> "note.pdf", load |-> "", pages |-> <<Filled(<<"R", "e", "f", "e", "r", "e", "n", "c", "e", "s">>, ShortChunk - 1)>>]
ScannedPaper == [name |-> "scan.pdf", load |-> "", pages |-> << <<>> >>]
BrokenFile == [name |-> "broken.pdf", load |-> "Failed to open file", pages |-> <<>>]
UploadableFiles == {PaperLong, PaperShort, ScannedPaper, BrokenFile}
Uploads == SeqsUpTo(UploadableFiles, MaxChunks)

\* what can go wrong outside the parsing of a file: writing the temporary copy
\* (ingest.py:20-21) and building the embeddings or the store (ingest.py:62-63)
OSErrorNoSpace == "[Errno 28] No space left on device"
EmbeddingError == "We couldn't connect to 'https://huggingface.co' to load this file"

PleaseUpload == Message("Please upload files first.", "")
ProcessedChunks(n) == Message("Processed chunks", n)
ErrorProcessing(e) == Message("Error processing PDFs", e)

\* ingest.py, lines 18-33: the pages of the files that load; a file that does
\* not load is reported and skipped
RECURSIVE LoadedDocuments(_)
LoadedDocuments(pdf_files) ==
    IF pdf_files = <<>> THEN <<>>
    ELSE (IF Head(pdf_files).load = "" THEN Head(pdf_files).pages ELSE <<>>)
         \o LoadedDocuments(Tail(pdf_files))

\* ingest.py, lines 42-46: a page shorter than chunk_size is one chunk, a page
\* without text is none
split_documents(documents) == SelectSeq(documents, LAMBDA d : d # <<>>)

\* ingest.py, lines 59-66, when nothing raises: whether faiss_index exists
\* after the call
create_vector_db(chunks_in, exists) == IF chunks_in = <<>> THEN exists ELSE TRUE

\* app.py, lines 32-34 and 44-45: the button is clicked (once in a behaviour)
ProcessClick ==
    /\ hpc \in {"idle", "done"}
    /\ processed = "none"
    /\ \E files \in Uploads :
          /\ uploaded_files' = files
          /\ IF files = <<>>
             THEN /\ message' = PleaseUpload
                  /\ hpc' = "done"
                  /\ processed' = "no_files"
             ELSE /\ message' = NoMessage
                  /\ hpc' = "rmtree"
                  /\ processed' = "running"
    /\ handler' = "process_pdfs"
    /\ index_before' = index_exists
    /\ UNCHANGED <<index_exists, gvars, rvars, lvars, ivars, callstate, runstate>>

\* app.py, lines 36-37: faiss_index is removed if it is there
ProcessRemove ==
    /\ handler = "process_pdfs" /\ hpc = "rmtree"
    /\ index_exists' = FALSE
    /\ hpc' = "load"
    /\ UNCHANGED <<handler, message, uvars, gvars, rvars, lvars, ivars, callstate,
                   runstate>>

\* app.py, line 39, to ingest.py, lines 14-50: the files are copied and loaded,
\* their pages are split, and extract_semantic_sections is entered; or the copy
\* fails, and the handler reports it (app.py:42-43)
ProcessLoad ==
    /\ handler = "process_pdfs" /\ hpc = "load"
    /\ \E copy \in {"", OSErrorNoSpace} :
          IF copy # ""
          THEN /\ message' = ErrorProcessing(copy)
               /\ hpc' = "done"
               /\ processed' = "failed"
               /\ UNCHANGED ivars
          ELSE /\ chunks' = split_documents(LoadedDocuments(uploaded_files))
               /\ epc' = "start"
               /\ chain' = FALSE /\ chunk_index' = 0
               /\ enriched_docs' = <<>> /\ invoked' = <<>> /\ responses' = <<>>
               /\ hpc' = "extract"
               /\ UNCHANGED <<message, processed>>
    /\ UNCHANGED <<handler, index_exists, uploaded_files, index_before, gvars, rvars,
                   lvars, callstate, runstate>>

\* ingest.py, lines 52-66, and app.py, lines 40-43: the chunks come back and
\* create_vector_db is called
ProcessCreate ==
    /\ handler = "process_pdfs" /\ hpc = "extract"
    /\ epc = "returned"
    /\ \E embed \in {"", EmbeddingError} :
          IF enriched_docs # <<>> /\ embed # ""
          THEN /\ message' = ErrorProcessing(embed)
               /\ processed' = "failed"
               /\ UNCHANGED index_exists
          ELSE /\ index_exists' = create_vector_db(enriched_docs, index_exists)
               /\ message' = ProcessedChunks(Len(enriched_docs))
               /\ processed' = IF enriched_docs = <<>> THEN "no_chunks" ELSE "saved"
    /\ hpc' = "done"
    /\ epc' = "idle"
    /\ UNCHANGED <<handler, uploaded_files, index_before, chunks, chain, chunk_index,
                   enriched_docs, invoked, responses, gvars, rvars, lvars, callstate,
                   runstate>>

InitUpload ==
    /\ GroundingIdle
    /\ user_query = ""
    /\ api_key \in BOOLEAN
    /\ llm_outcome = [raises |-> "", raw |-> <<>>, doc |-> JsonInvalid]
    /\ rpc = "idle"
    /\ raised = "" /\ propagated = ""
    /\ reasoning_result = NoDict
    /\ search_query = PyStr("")
    /\ LogIdle
    /\ IngestIdle
    /\ index_exists \in BOOLEAN
    /\ handler = "none" /\ hpc = "idle"
    /\ stages = <<>> /\ raw_results = <<>>
    /\ ctx_docs = <<>> /\ ctx_distances = <<>> /\ processed_context = <<>>
    /\ pre_gen_confidence = Zero
    /\ error = ""
    /\ message = NoMessage
    /\ log_before = NoFile
    /\ log_calls = 0 /\ searches = 0 /\ asked = 0 /\ test_case = 0 /\ results = <<>>
    /\ uploaded_files = <<>> /\ index_before = FALSE /\ processed = "none"

NextUpload ==
    \/ ProcessClick
    \/ ProcessRemove
    \/ ProcessLoad
    \/ ExtractStart
    \/ EnrichWithoutCall
    \/ EnrichWithCall
    \/ ExtractReturn
    \/ ProcessCreate
    \/ StartChat
    \/ ChatLoad

SpecUpload == InitUpload /\ [][NextUpload]_vars

\* the last click on "Process PDFs" failed or produced no chunks
ProcessingCameToNothing == processed \in {"failed", "no_chunks"}

\* C24: when processing the uploaded files fails or yields no chunks, the index
\* that existed before the click is still there, and a chat question asked
\* afterwards does not meet the "not ready" message.
C24_IndexKept ==
    (ProcessingCameToNothing /\ index_before) =>
        /\ index_exists
        /\ (handler = "chat" => message # NotReadyChat)

----------------------------------------------------------------------------
(* The end of run_benchmark *)

\* the questions of the golden dataset, in its order
GoldenQueries == [i \in 1..Len(TEST_DATASET) |-> TEST_DATASET[i].question.chars]

\* the questions of the results collected by the run
ResultQueries == [i \in 1..Len(results) |-> results[i].query]

\* C25: with an index, a finished run of run_benchmark has gone through every
\* golden query in dataset order whatever failed on the way, and has ended by
\* printing the aggregate report, also when every query failed.
C25_ReportAlwaysPrinted ==
    (handler = "benchmark" /\ hpc = "done" /\ index_exists) =>
        /\ test_case = Len(TEST_DATASET)
        /\ HoldsInOrder(GoldenQueries, ResultQueries)
        /\ message = BenchmarkReport

====
